---- MODULE Spec2Model ----
(***************************************************************************)
(* Authentication / session lifecycle of the Express + Mongoose backend:   *)
(* the User model (models/User.js), the auth and user controllers          *)
(* (controllers/authController.js), the guards (middleware/auth.js) and    *)
(* the users router (routes/users.js).                                     *)
(*                                                                         *)
(* A request handler is an async function: the code between two awaits     *)
(* runs atomically, and other requests run between them.  Each handler is  *)
(* therefore a chain of actions, one per await on the database, and a      *)
(* request slot req[s] holds the handler's position and its local          *)
(* Mongoose document.  Values are integers throughout: dates are           *)
(* milliseconds, Undef is an unset field, a hash is its argument shifted   *)
(* into a range no plaintext lies in.                                      *)
(***************************************************************************)
EXTENDS Integers, Sequences, FiniteSets, TLC

VARIABLES
    db,     \* the users collection: db[id] is the stored document
    now,    \* Date.now(), in milliseconds
    req,    \* req[s]: the handler running in request slot s
    last,   \* what the latest step answered and whether it wrote to db
    hist,   \* history: what the clients did and were given
    cfg,    \* the scenario: clock step, number of concurrent requests
    fe      \* the frontend: the auth store and the calls of the axios instance

vars == <<db, now, req, last, hist, cfg, fe>>

-----------------------------------------------------------------------------
(* The frontend state (hooks/useAuthStore.js, services/api.js).  null is 0; *)
(* a token is the number of the response that carried it.                   *)

\* useAuthStore 7-11
NoStore == [user |-> 0, token |-> 0, refreshToken |-> 0, isAuthenticated |-> FALSE]

\* The store, the calls of the axios instance that wait for an answer (the
\* latest last; each is a request config with its _retry flag), and what
\* became of the request the user started: the refresh calls made for it,
\* whether it was answered 401, whether it was sent again after a refresh.
Fe0 ==
    [store |-> NoStore, calls |-> <<>>, nreq |-> 0, minted |-> 0,
     refreshes |-> 0, saw401 |-> FALSE, retried |-> FALSE, outcome |-> "none"]

-----------------------------------------------------------------------------
(* Bounds of the model *)

MaxTicks == 5       \* the clock advances at most this many steps
MaxReqs == 7        \* requests started in one behaviour

Ids == {1, 2}       \* user ids (_id)
Slots == {1, 2}     \* request slots: requests in flight at once
Passwords == {1, 2} \* plaintext passwords

Undef == -1         \* an unset Date / Number field
NoHash == 0         \* an unset token-hash field

-----------------------------------------------------------------------------
(* Program constants *)

MAX_LOGIN_ATTEMPTS == 5
LOCK_TIME == 2 * 60 * 60 * 1000
MaxRefreshTokens == 5
PasswordChangedSkew == 1000
ResetTokenTTL == 10 * 60 * 1000
VerifyTokenTTL == 24 * 60 * 60 * 1000

Hour == 60 * 60 * 1000
Second == 1000

\* The statuses the global error handler gives to errors that are not an
\* ApiError: a JsonWebTokenError / TokenExpiredError, a failed validation,
\* anything else
JwtErrorStatus == 401
ValidationErrorStatus == 400
ServerErrorStatus == 500

-----------------------------------------------------------------------------
(* Hashing.  bcrypt.hash and sha256 are one-way: the stored value is never *)
(* the plaintext, and compare succeeds exactly for the hashed plaintext.   *)

BcryptHash(pw) == 100 + pw

BcryptCompare(candidate, hash) == hash = BcryptHash(candidate)

\* mutant of correctPassword: every candidate is accepted
correctPassword_Always(candidatePassword, userPassword) == TRUE

correctPassword(candidatePassword, userPassword) ==
    BcryptCompare(candidatePassword, userPassword)

-----------------------------------------------------------------------------
(* The user document *)

NoDoc ==
    [exists |-> FALSE, active |-> FALSE, role |-> "user", password |-> 0,
     passwordChangedAt |-> Undef, passwordResetToken |-> NoHash,
     passwordResetExpires |-> Undef, emailVerificationToken |-> NoHash,
     emailVerificationExpires |-> Undef, emailVerified |-> FALSE,
     loginAttempts |-> 0, lockUntil |-> Undef, lastLogin |-> Undef,
     refreshTokens |-> <<>>, v |-> 0]

\* Schema defaults of a new document (User.js 11-147); the password is
\* hashed by the pre-save hook before it is stored.
NewUser(role, pw, t) ==
    [NoDoc EXCEPT !.exists = TRUE, !.active = TRUE, !.role = role,
                  !.password = BcryptHash(pw), !.passwordChangedAt = t]

\* mutant of uniqueIndexAllows: no index
uniqueIndexAllows_Always(r) == TRUE

\* email and username are unique: true (User.js 27, 38): the index
\* refuses the insert of a document next to a stored one of the same value,
\* active or not
uniqueIndexAllows(r) == ~r.exists

\* How a client spells an email: as stored, or with capitals (the stored
\* spelling plus 10)
Spellings == Ids \cup {u + 10 : u \in Ids}

\* email is lowercase: true (User.js 28): the setter runs where a document
\* is made and where a query is cast
lowercase(e) == e % 10

\* mutant of FindById: the pre-find hook left out
FindById_NoFilter(id) ==
    IF id \in Ids /\ db[id].exists THEN db[id] ELSE NoDoc

\* pre(/^find/): every find-based query carries { active: { $ne: false } }
FindById(id) ==
    IF id \in Ids /\ db[id].exists /\ db[id].active THEN db[id] ELSE NoDoc

\* mutant of isLocked: the comparison turned round
isLocked_Reversed(doc, t) == doc.lockUntil # Undef /\ doc.lockUntil < t

\* virtual isLocked
isLocked(doc, t) == doc.lockUntil # Undef /\ doc.lockUntil > t

\* mutant of incLoginAttempts: the counter is put back to 0 where the lock
\* is set
incLoginAttempts_ResetAtLock(doc, r, t) ==
    IF doc.lockUntil # Undef /\ doc.lockUntil < t
    THEN [r EXCEPT !.lockUntil = Undef, !.loginAttempts = 1]
    ELSE IF doc.loginAttempts + 1 >= MAX_LOGIN_ATTEMPTS
            /\ ~(doc.lockUntil # Undef /\ doc.lockUntil > t)
         THEN [r EXCEPT !.loginAttempts = 0, !.lockUntil = t + LOCK_TIME]
         ELSE [r EXCEPT !.loginAttempts = @ + 1]

\* mutant of incLoginAttempts: the lock is set one failure late (> for >=)
incLoginAttempts_OffByOne(doc, r, t) ==
    IF doc.lockUntil # Undef /\ doc.lockUntil < t
    THEN [r EXCEPT !.lockUntil = Undef, !.loginAttempts = 1]
    ELSE IF doc.loginAttempts + 1 > MAX_LOGIN_ATTEMPTS
            /\ ~(doc.lockUntil # Undef /\ doc.lockUntil > t)
         THEN [r EXCEPT !.loginAttempts = @ + 1, !.lockUntil = t + LOCK_TIME]
         ELSE [r EXCEPT !.loginAttempts = @ + 1]

\* incLoginAttempts: the update is decided on the handler's document doc
\* and applied by updateOne to the stored document r
incLoginAttempts(doc, r, t) ==
    IF doc.lockUntil # Undef /\ doc.lockUntil < t
    THEN [r EXCEPT !.lockUntil = Undef, !.loginAttempts = 1]
    ELSE IF doc.loginAttempts + 1 >= MAX_LOGIN_ATTEMPTS /\ ~isLocked(doc, t)
         THEN [r EXCEPT !.loginAttempts = @ + 1, !.lockUntil = t + LOCK_TIME]
         ELSE [r EXCEPT !.loginAttempts = @ + 1]

\* mutant of resetLoginAttempts: the counter is left as it is
resetLoginAttempts_KeepCount(r) == [r EXCEPT !.lockUntil = Undef]

\* resetLoginAttempts: $unset loginAttempts and lockUntil (an unset
\* loginAttempts reads as its schema default 0)
resetLoginAttempts(r) == [r EXCEPT !.loginAttempts = 0, !.lockUntil = Undef]

-----------------------------------------------------------------------------
(* JSON web tokens.  jwt.sign({ id }, secret, { expiresIn }) is a function *)
(* of the payload, the secret and the second it is signed in: two tokens   *)
(* of one kind signed for one user in the same second are the same string. *)

JWT_EXPIRES_IN == 7 * 24 * 60 * 60
JWT_REFRESH_EXPIRES_IN == 30 * 24 * 60 * 60

NoTok == [kind |-> "none", id |-> 0, iat |-> 0, exp |-> 0]

signToken(id, t) ==
    [kind |-> "access", id |-> id, iat |-> t \div Second,
     exp |-> (t \div Second) + JWT_EXPIRES_IN]

signRefreshToken(id, t) ==
    [kind |-> "refresh", id |-> id, iat |-> t \div Second,
     exp |-> (t \div Second) + JWT_REFRESH_EXPIRES_IN]

\* jwt.verify(token, secret): the signature is that of the secret's kind and
\* the token has not expired (it throws otherwise)
jwtVerify(tok, kind, t) == tok.kind = kind /\ (t \div Second) < tok.exp

-----------------------------------------------------------------------------
(* Mongoose save().  save() sends only the paths the handler modified.  A  *)
(* push on the refreshTokens array is sent as an atomic $push, which        *)
(* increments __v and is applied whatever the stored array has become; an   *)
(* array assigned as a whole (the slice) is sent as a $set guarded by the   *)
(* __v the document was loaded with, and fails with VersionError when __v   *)
(* has moved.  A save of a deleted document fails.                          *)

NoSave == [kind |-> "none", items |-> <<>>, v |-> 0]

\* mutant of KeepLast: the first five are kept
KeepLast_Oldest(list) ==
    IF Len(list) > MaxRefreshTokens
    THEN SubSeq(list, 1, MaxRefreshTokens)
    ELSE list

\* slice(-5)
KeepLast(list) ==
    IF Len(list) > MaxRefreshTokens
    THEN SubSeq(list, Len(list) - MaxRefreshTokens + 1, Len(list))
    ELSE list

\* createSendToken 36-50: push the new refresh token, keep the last five,
\* and hand the change to save() without awaiting it
RefreshTokensSave(doc, rt) ==
    LET pushed == Append(doc.refreshTokens, rt) IN
    IF Len(pushed) > MaxRefreshTokens
    THEN [kind |-> "set", items |-> KeepLast(pushed), v |-> doc.v]
    ELSE [kind |-> "push", items |-> <<rt>>, v |-> doc.v]

SaveSucceeds(r, sv) ==
    /\ r.exists
    /\ sv.kind = "set" => r.v = sv.v

ApplySave(r, sv) ==
    IF ~SaveSucceeds(r, sv) THEN r
    ELSE IF sv.kind = "push"
         THEN [r EXCEPT !.refreshTokens = @ \o sv.items, !.v = @ + 1]
         ELSE [r EXCEPT !.refreshTokens = sv.items, !.v = @ + 1]

-----------------------------------------------------------------------------
(* Request slots, responses, history *)

\* what a client sends: a password, a new password (0: the body fails
\* validation), a JWT and how it is carried, the plaintext of a one-time
\* token, the :id of the path, the fields of an admin's body, the
\* refreshToken cookie of a logout
In0 ==
    [pw |-> 0, newpw |-> 0, tok |-> NoTok, plain |-> 0, via |-> "none",
     target |-> 0, body |-> "", rt |-> NoTok]

Idle ==
    [op |-> "idle", pc |-> "idle", uid |-> 0, doc |-> NoDoc, inp |-> In0,
     save |-> NoSave]

\* a new request may start in slot s: the first free one of the cfg.conc
\* slots in use.  Only the requests that get past their first step are
\* counted: one answered at once leaves nothing behind.
CanStart(s) ==
    /\ req[s].op = "idle"
    /\ s <= cfg.conc
    /\ \A x \in Slots : x < s => req[x].op # "idle"
    /\ hist.nreq < cfg.reqs

\* The answer of a step: op is the handler and step its position; status
\* is 0 while the handler goes on.  inp is what the client sent, iss the
\* iat of the token pair handed out (Undef: none), pre the stored document
\* of the user before the step, changed whether the step wrote to db, by the
\* role of req.user where a guarded handler ran.
Resp(op, step, u, status, msg, inp, iss, changed) ==
    [op |-> op, step |-> step, uid |-> u, status |-> status, msg |-> msg,
     inp |-> inp, iss |-> iss,
     pre |-> IF u \in Ids THEN db[u] ELSE NoDoc, changed |-> changed,
     by |-> "", atOnce |-> FALSE]

\* A request answered in its first step, before it wrote anything: the
\* state is as the request found it.  The answer to such a request is the
\* same whatever was answered just before, so two of them in a row are not
\* explored: the states reached are the same without.
Reject(op, step, u, status, msg, inp) ==
    /\ ~last.atOnce
    /\ last' = [Resp(op, step, u, status, msg, inp, Undef, FALSE)
                  EXCEPT !.atOnce = TRUE]
    /\ req' = req
    /\ hist' = hist

NoResp ==
    [op |-> "init", step |-> "", uid |-> 0, status |-> 0, msg |-> "",
     inp |-> In0, iss |-> Undef, pre |-> NoDoc, changed |-> FALSE, by |-> "",
     atOnce |-> FALSE]

Hist0 ==
    [nreq |-> 0, ticks |-> 0,
     rnd |-> 0,                          \* crypto.randomBytes values drawn
     fails |-> [u \in Ids |-> 0],        \* wrong passwords since the last success
     fifthAt |-> [u \in Ids |-> Undef],  \* when that count reached five
     ranFive |-> [u \in Ids |-> FALSE],  \* it reached five at some time
     run |-> [u \in Ids |-> 0],          \* wrong passwords compared since the last
                                         \* success or the last lock set
     changedAt |-> [u \in Ids |-> Undef],\* Date.now() of the last password change
     issued |-> {},                      \* token pairs handed out: id, iat, time
     log |-> [u \in Ids |-> <<>>],       \* their iat, in the order handed out
     out |-> {},                         \* one-time tokens made: plain, kind, id, time
     used |-> {},                        \* plaintexts a handler accepted and consumed
     reused |-> {},                      \* plaintexts a handler accepted a second time
     revoked |-> {},                     \* refresh tokens a logout removed, not handed out since
     dup |-> FALSE,                      \* a document was inserted next to a stored one
                                         \* of its email and username
     plain |-> [u \in Ids |-> 1]]        \* the password set last by signup, createUser,
                                         \* resetPassword or updatePassword (accounts start with 1)

Issue(h, u, t) ==
    [h EXCEPT !.issued = @ \cup {[id |-> u, iat |-> t \div Second, t |-> t]},
              !.log[u] = Append(@, t \div Second),
              !.revoked = @ \ {signRefreshToken(u, t)}]

Started(h) == [h EXCEPT !.nreq = @ + 1]

-----------------------------------------------------------------------------
(* The clock *)

Tick ==
    /\ hist.ticks < cfg.ticks
    /\ \E d \in cfg.steps : now' = now + d
    /\ hist' = [hist EXCEPT !.ticks = @ + 1]
    /\ last' = Resp("tick", "", 0, 0, "", In0, Undef, FALSE)
    /\ UNCHANGED <<db, req, cfg, fe>>

-----------------------------------------------------------------------------
(* createSendToken (authController.js 34-89): sign the pair, push the      *)
(* refresh token on the handler's document, start the save and answer.     *)
(* The save is not awaited: it reaches the database in a later step        *)
(* (SaveApply), after the response has left.                               *)

createSendToken(s, op, doc, u) ==
    [req EXCEPT ![s] = [Idle EXCEPT !.op = op, !.pc = "apply", !.uid = u,
                   !.save = RefreshTokensSave(doc, signRefreshToken(u, now))]]

SaveApply(s) ==
    /\ req[s].pc = "apply"
    /\ LET u == req[s].uid IN
       /\ db' = [db EXCEPT ![u] = ApplySave(@, req[s].save)]
       /\ last' = Resp(req[s].op, "apply", u,
                       IF SaveSucceeds(db[u], req[s].save) THEN 200
                       ELSE ServerErrorStatus,
                       req[s].save.kind,
                       [In0 EXCEPT !.tok = req[s].save.items[Len(req[s].save.items)]],
                       Undef, db' # db)
    /\ req' = [req EXCEPT ![s] = Idle]
    /\ UNCHANGED <<now, hist, cfg, fe>>

-----------------------------------------------------------------------------
(* login (authController.js 131-163) *)

\* 132-152 up to the await on bcrypt: the missing field, findOne({ email }),
\* the lock check, the unknown user
LoginFind(s, u, pw) ==
    /\ CanStart(s)
    /\ LET doc == FindById(u)
           inp == [In0 EXCEPT !.pw = pw]
       IN
       /\ IF pw = 0
          THEN Reject("login", "find", u, 400, "missing", inp)
          ELSE IF doc.exists /\ isLocked(doc, now)
          THEN Reject("login", "find", u, 423, "locked", inp)
          ELSE IF ~doc.exists
          THEN Reject("login", "find", u, 401, "incorrect", inp)
          ELSE /\ last' = Resp("login", "find", u, 0, "", inp, Undef, FALSE)
               /\ hist' = Started(hist)
               /\ req' = [req EXCEPT ![s] = [Idle EXCEPT !.op = "login",
                              !.pc = "compare", !.uid = u, !.doc = doc, !.inp = inp]]
    /\ UNCHANGED <<db, now, cfg, fe>>

\* 147-155: correctPassword, then incLoginAttempts and 401, or
\* resetLoginAttempts
LoginCompare(s) ==
    /\ req[s].op = "login" /\ req[s].pc = "compare"
    /\ LET u == req[s].uid
           doc == req[s].doc
       IN IF ~correctPassword(req[s].inp.pw, doc.password)
          THEN /\ db' = [db EXCEPT ![u] =
                            IF @.exists THEN incLoginAttempts(doc, @, now) ELSE @]
               /\ last' = Resp("login", "compare", u, 401, "incorrect",
                               req[s].inp, Undef, db' # db)
               /\ req' = [req EXCEPT ![s] = Idle]
               /\ hist' = [hist EXCEPT !.fails[u] = @ + 1,
                              !.fifthAt[u] = IF hist.fails[u] + 1 = MAX_LOGIN_ATTEMPTS
                                             THEN now ELSE @,
                              !.ranFive[u] = @ \/ hist.fails[u] + 1 = 5,
                              !.run[u] = IF db'[u].lockUntil # Undef
                                            /\ db'[u].lockUntil # db[u].lockUntil
                                         THEN 0 ELSE @ + 1]
          ELSE /\ db' = [db EXCEPT ![u] =
                            IF @.exists THEN resetLoginAttempts(@) ELSE @]
               /\ last' = Resp("login", "compare", u, 0, "", req[s].inp, Undef,
                               db' # db)
               /\ req' = [req EXCEPT ![s].pc = "save"]
               /\ hist' = hist
    /\ UNCHANGED <<now, cfg, fe>>

\* 156-162: lastLogin and the awaited save, then createSendToken
LoginSave(s) ==
    /\ req[s].op = "login" /\ req[s].pc = "save"
    /\ LET u == req[s].uid IN
       IF ~db[u].exists
       THEN /\ last' = Resp("login", "save", u, ServerErrorStatus, "save failed", req[s].inp,
                            Undef, FALSE)
            /\ req' = [req EXCEPT ![s] = Idle]
            /\ UNCHANGED <<db, hist>>
       ELSE /\ db' = [db EXCEPT ![u].lastLogin = now]
            /\ last' = Resp("login", "save", u, 200, "success", req[s].inp,
                            now \div Second, TRUE)
            /\ req' = createSendToken(s, "login", req[s].doc, u)
            /\ hist' = [Issue(hist, u, now) EXCEPT !.fails[u] = 0,
                                                    !.fifthAt[u] = Undef,
                                                    !.run[u] = 0]
    /\ UNCHANGED <<now, cfg, fe>>

-----------------------------------------------------------------------------
(* refreshToken (authController.js 195-218) *)

\* The JWTs a client can present for a secret of the given kind: none, any
\* token signed so far for any id (also one the server never stored), a
\* token signed with the other secret, a token that has expired.
Signed(kind, u, sec) ==
    IF kind = "refresh" THEN signRefreshToken(u, sec * Second)
                        ELSE signToken(u, sec * Second)

OtherKind(kind) == IF kind = "refresh" THEN "access" ELSE "refresh"

Expired(kind, u) ==
    [kind |-> kind, id |-> u, iat |-> 0 - (now \div Second) - 1, exp |-> 0]

Presentable(kind) ==
    {NoTok}
      \cup {Signed(kind, 1, sec) : sec \in 0..(now \div Second)}
      \cup {Signed(kind, u, now \div Second) : u \in Ids}
      \cup {Signed(OtherKind(kind), 1, now \div Second), Expired(kind, 1)}

\* mutant of tokenExists: the lookup in the stored list left out
tokenExists_Always(doc, tok) == TRUE

\* 211: user.refreshTokens.some(tokenObj => tokenObj.token === refreshToken)
tokenExists(doc, tok) ==
    \E i \in 1..Len(doc.refreshTokens) : doc.refreshTokens[i] = tok

\* The handler has one await on the database, findById; what follows it is
\* synchronous and is taken at the time of the read.
RefreshToken(s, tok) ==
    /\ CanStart(s)
    /\ LET inp == [In0 EXCEPT !.tok = tok]
           doc == FindById(tok.id)
           u == tok.id
       IN
       IF tok = NoTok
       THEN Reject("refresh", "find", u, 401, "no refresh token", inp)
       ELSE IF ~jwtVerify(tok, "refresh", now)
       THEN Reject("refresh", "find", u, JwtErrorStatus, "jwt error", inp)
       ELSE IF ~doc.exists \/ ~tokenExists(doc, tok)
       THEN Reject("refresh", "find", u, 401, "invalid refresh token", inp)
       ELSE /\ last' = Resp("refresh", "find", u, 200, "success", inp,
                            now \div Second, FALSE)
            /\ req' = createSendToken(s, "refresh", doc, u)
            /\ hist' = Issue(Started(hist), u, now)
    /\ UNCHANGED <<db, now, cfg, fe>>

-----------------------------------------------------------------------------
(* Lockout scenario: one account, logins one after another, the clock in   *)
(* hours                                                                    *)

T0 == 2 * Second

LoginInit ==
    /\ db = [u \in Ids |-> IF u = 1 THEN NewUser("user", 1, 0) ELSE NoDoc]
    /\ now = T0
    /\ req = [s \in Slots |-> Idle]
    /\ last = NoResp
    /\ fe = Fe0
    /\ hist = Hist0
    /\ cfg = [steps |-> {Hour}, conc |-> 1, reqs |-> MaxReqs, ticks |-> MaxTicks,
              pws |-> {0} \cup Passwords]

LoginNext ==
    \/ \E s \in Slots, u \in Ids, pw \in cfg.pws : LoginFind(s, u, pw)
    \/ \E s \in Slots : LoginCompare(s)
    \/ \E s \in Slots : LoginSave(s)
    \/ \E s \in Slots : SaveApply(s)
    \/ Tick

LoginSpec == LoginInit /\ [][LoginNext]_vars

-----------------------------------------------------------------------------
(* Lockout (LoginSpec) *)

\* a login request that supplied its credentials was answered, or sent on
\* to the next step, for user u
LoginStepOf(u) ==
    /\ last.op = "login" /\ last.step \in {"find", "compare", "save"}
    /\ last.uid = u /\ last.inp.pw # 0

\* C3: once five wrong passwords in a row were answered for an account,
\* every login attempt made before the fifth failure's time plus two hours,
\* whatever its password, is answered 423 and hands out no tokens.
C3_LockedAfterFiveFailures ==
    \A u \in Ids :
        ( /\ LoginStepOf(u)
          /\ hist.fifthAt[u] # Undef
          /\ now < hist.fifthAt[u] + 2 * 60 * 60 * 1000
          /\ ~(last.status = 401 /\ hist.fails[u] = 5) )  \* the fifth failure itself
        => (last.status = 423 /\ last.iss = Undef)

\* the sixth attempt, with the correct password, an hour into the lock
C3_Witness ==
    /\ LoginStepOf(1) /\ last.status = 423
    /\ last.pre.password = BcryptHash(last.inp.pw)
    /\ hist.fifthAt[1] # Undef /\ hist.fifthAt[1] < now
    /\ now < hist.fifthAt[1] + 2 * 60 * 60 * 1000

\* C10: a login that finds the account locked (lockUntil in the future) is
\* answered 423 at the lock check, before any password comparison, and
\* writes nothing: the stored document is as it was.
C10_LockedLoginChangesNothing ==
    ( /\ last.op = "login" /\ last.step = "find" /\ last.inp.pw # 0
      /\ last.pre.exists
      /\ last.pre.lockUntil # Undef /\ last.pre.lockUntil > now )
    => ( /\ last.status = 423
         /\ ~last.changed
         /\ db[last.uid] = last.pre
         /\ \A s \in Slots : req[s].pc # "compare" )

\* a wrong password on a locked account: 423, counters and lock as before
C10_Witness ==
    /\ last.op = "login" /\ last.step = "find" /\ last.status = 423
    /\ last.pre.password # BcryptHash(last.inp.pw)
    /\ last.pre.lockUntil > now
    /\ db[last.uid].loginAttempts = last.pre.loginAttempts
    /\ db[last.uid].lockUntil = last.pre.lockUntil

\* a password comparison of a login has just failed for a stored account
FailedCompare ==
    /\ last.op = "login" /\ last.step = "compare" /\ last.status = 401
    /\ last.pre.exists

\* C11 as stated: a failed comparison on an unlocked account adds exactly 1
\* to the counter, and the failure that reaches 5 in a row sets lockUntil
\* to now + 2 hours and puts the counter back to 0.
C11_CounterResetAtLock ==
    ( /\ FailedCompare
      /\ ~(last.pre.lockUntil # Undef /\ last.pre.lockUntil > now) )
    => IF hist.fails[last.uid] = 5
       THEN /\ db[last.uid].lockUntil = now + 2 * 60 * 60 * 1000
            /\ db[last.uid].loginAttempts = 0
       ELSE db[last.uid].loginAttempts = last.pre.loginAttempts + 1

\* C11 amended: a failed comparison on an account with no lock set adds
\* exactly 1 to the counter; the failure that brings it to 5 sets lockUntil
\* to now + 2 hours and leaves the counter at 5; the counter restarts at 1,
\* and the lock is unset, on the first failure after the lock has expired.
C11_CounterStaysAtLock ==
    /\ (FailedCompare /\ last.pre.lockUntil = Undef)
       => ( /\ db[last.uid].loginAttempts = last.pre.loginAttempts + 1
            /\ db[last.uid].loginAttempts = 5
                  => db[last.uid].lockUntil = now + 2 * 60 * 60 * 1000
            /\ db[last.uid].loginAttempts < 5 => db[last.uid].lockUntil = Undef )
    /\ (FailedCompare /\ last.pre.lockUntil # Undef /\ last.pre.lockUntil < now)
       => ( /\ db[last.uid].loginAttempts = 1
            /\ db[last.uid].lockUntil = Undef )

\* the fifth failure in a row: locked for two hours, the counter at 5
C11_Witness ==
    /\ FailedCompare /\ last.pre.lockUntil = Undef
    /\ last.pre.loginAttempts = 4
    /\ db[last.uid].loginAttempts = 5
    /\ db[last.uid].lockUntil = now + 2 * 60 * 60 * 1000

\* C26: a failed comparison on an account whose lockUntil is set and not in
\* the future, the instant lockUntil itself included, unsets lockUntil and
\* restarts loginAttempts at 1; it sets no new lock.
C26_FailureAfterLockRestartsAtOne ==
    ( FailedCompare /\ last.pre.lockUntil # Undef /\ last.pre.lockUntil <= now )
    => ( /\ db[last.uid].loginAttempts = 1
         /\ db[last.uid].lockUntil = Undef )

\* C12: a login with the right password clears loginAttempts and lockUntil
\* and sets lastLogin; an account on which no run of wrong passwords between
\* two successful logins reached 5 has no lock.
C12_SuccessClearsAttempts ==
    /\ (last.op = "login" /\ last.step = "compare" /\ last.status = 0)
       => (db[last.uid].loginAttempts = 0 /\ db[last.uid].lockUntil = Undef)
    /\ (last.op = "login" /\ last.step = "save" /\ last.status = 200)
       => ( /\ db[last.uid].loginAttempts = 0
            /\ db[last.uid].lockUntil = Undef
            /\ db[last.uid].lastLogin = now )
    /\ \A u \in Ids :
          ~hist.ranFive[u] => (db[u].lockUntil = Undef /\ db[u].loginAttempts < 5)

\* four wrong passwords, then the right one: the counter goes from 4 to 0
C12_Witness ==
    /\ last.op = "login" /\ last.step = "compare" /\ last.status = 0
    /\ last.pre.loginAttempts = 4
    /\ db[last.uid].loginAttempts = 0
    /\ ~hist.ranFive[last.uid]

-----------------------------------------------------------------------------
(* Token scenario: one account, two requests in flight, the clock in       *)
(* seconds                                                                  *)

MaxTokReqs == 4
MaxTokTicks == 1

\* the account after n logins in n successive seconds
OldTokens(n) == [i \in 1..n |-> signRefreshToken(1, i * Second)]

Init ==
    /\ \E n \in {MaxRefreshTokens - 1} :
          /\ db = [u \in Ids |-> IF u = 1
                       THEN [NewUser("user", 1, 0) EXCEPT
                                !.refreshTokens = OldTokens(n), !.v = n,
                                !.lastLogin = IF n = 0 THEN Undef ELSE n * Second]
                       ELSE NoDoc]
          /\ now = (n + 1) * Second
    /\ req = [s \in Slots |-> Idle]
    /\ last = NoResp
    /\ fe = Fe0
    /\ hist = Hist0
    /\ cfg = [steps |-> {Second}, conc |-> 2, reqs |-> MaxTokReqs, ticks |-> MaxTokTicks,
              pws |-> {1}]

Next ==
    \/ \E s \in Slots, u \in Ids, pw \in cfg.pws : LoginFind(s, u, pw)
    \/ \E s \in Slots : LoginCompare(s)
    \/ \E s \in Slots : LoginSave(s)
    \/ \E s \in Slots : \E tok \in Presentable("refresh") : RefreshToken(s, tok)
    \/ \E s \in Slots : SaveApply(s)
    \/ Tick

Spec == Init /\ [][Next]_vars

\* C1: the stored refreshTokens list of every user holds at most 5 entries.
C1_AtMostFiveRefreshTokens ==
    \A u \in Ids : Len(db[u].refreshTokens) <= 5

\* C16: the refresh token of every answered signup, login, refresh, reset
\* or update-password is stored in the user's list, also with two requests
\* of one user in flight: once the save that createSendToken started has
\* run, the stored list holds the token that was handed out.
C16_IssuedTokenStored ==
    last.step = "apply" =>
        \E i \in 1..Len(db[last.uid].refreshTokens) :
            db[last.uid].refreshTokens[i] = last.inp.tok

\* C2: a refresh request whose token is signed with the refresh secret and
\* unexpired, for an existing user, but is not in that user's stored list,
\* is answered 401, hands out no token pair and leaves the stored document
\* as it was.
C2_UnknownRefreshTokenRejected ==
    ( /\ last.op = "refresh" /\ last.step = "find"
      /\ last.inp.tok.kind = "refresh" /\ (now \div 1000) < last.inp.tok.exp
      /\ last.pre.exists
      /\ \A i \in 1..Len(last.pre.refreshTokens) :
             last.pre.refreshTokens[i] # last.inp.tok )
    => ( /\ last.status = 401
         /\ last.iss = Undef
         /\ ~last.changed
         /\ db[last.uid] = last.pre )

\* a token of the user signed in a second in which none was stored
C2_Witness ==
    /\ last.op = "refresh" /\ last.step = "find" /\ last.status = 401
    /\ last.inp.tok.kind = "refresh" /\ (now \div 1000) < last.inp.tok.exp
    /\ last.pre.exists /\ last.pre.active
    /\ Len(last.pre.refreshTokens) > 0
    /\ \A i \in 1..Len(last.pre.refreshTokens) :
           last.pre.refreshTokens[i] # last.inp.tok

-----------------------------------------------------------------------------
(* The guards (middleware/auth.js) *)

\* parseInt(x / d, 10): the quotient cut towards zero
Trunc(x, d) == IF x >= 0 THEN x \div d ELSE 0 - ((0 - x) \div d)

\* mutant of changedPasswordAfter: the comparison left out
changedPasswordAfter_Never(doc, JWTTimestamp) == FALSE

\* changedPasswordAfter (User.js 204-213)
changedPasswordAfter(doc, JWTTimestamp) ==
    IF doc.passwordChangedAt # Undef
    THEN JWTTimestamp < Trunc(doc.passwordChangedAt, 1000)
    ELSE FALSE

\* How the client carries the access token: in 'Authorization: Bearer <t>',
\* in the jwt cookie, in the cookie next to an Authorization header of
\* another scheme, or in the cookie next to a header 'Bearer' with no token
Carriers == {"header", "cookie", "basic+cookie", "bearer+cookie"}

\* protect 17-25: a header that starts with 'Bearer' is split at the blank
\* and the cookie is not looked at; any other header leaves the cookie
ExtractToken(via, tok) == IF via = "bearer+cookie" THEN NoTok ELSE tok

Deny(status, msg) == [status |-> status, msg |-> msg, user |-> NoDoc]

\* protect (auth.js 15-59); status 0 is next() with req.user = user
protect(via, tok, t) ==
    LET token == ExtractToken(via, tok)
        currentUser == FindById(token.id)
    IN IF token = NoTok THEN Deny(401, "not logged in")
       ELSE IF ~jwtVerify(token, "access", t)
            THEN Deny(JwtErrorStatus, "jwt error")
       ELSE IF ~currentUser.exists THEN Deny(401, "no longer exist")
       ELSE IF changedPasswordAfter(currentUser, token.iat)
            THEN Deny(401, "recently changed password")
       ELSE IF ~currentUser.active THEN Deny(401, "deactivated")
       ELSE [status |-> 0, msg |-> "next", user |-> currentUser]

\* mutant of restrictTo: the role is not looked at
restrictTo_Any(roles, user) == TRUE

\* restrictTo (auth.js 64-73): TRUE is next(), FALSE the 403
restrictTo(roles, user) == user.role \in roles

-----------------------------------------------------------------------------
(* The users router (routes/users.js 11-35) *)

Roles == {"user", "admin", "moderator"}

Methods == {"GET", "POST", "PATCH", "DELETE"}
Paths == {"/me", "/update-me", "/delete-me", "/", "/stats", "/:id"}

AdminHandlers ==
    {"getAllUsers", "createUser", "getUserStats", "getUser", "updateUser",
     "deleteUser"}

\* The handler a request reaches, in the order the routes are registered:
\* the current-user routes, then restrictTo('admin'), then the admin
\* routes.  A path of one segment that is none of the literal routes of the
\* method is an :id.
usersRoute(method, path) ==
    IF method = "GET" /\ path = "/me" THEN "getMe"
    ELSE IF method = "PATCH" /\ path = "/update-me" THEN "updateMe"
    ELSE IF method = "DELETE" /\ path = "/delete-me" THEN "deleteMe"
    ELSE IF path = "/"
         THEN IF method = "GET" THEN "getAllUsers"
              ELSE IF method = "POST" THEN "createUser"
              ELSE "notFound"
    ELSE IF method = "GET" /\ path = "/stats" THEN "getUserStats"
    ELSE IF method = "GET" THEN "getUser"
    ELSE IF method = "PATCH" THEN "updateUser"
    ELSE IF method = "DELETE" THEN "deleteUser"
    ELSE "notFound"

\* the fields of an admin's body: none, a role, active, a password
Bodies == {"", "role:admin", "role:moderator", "active:false", "password"}

\* bodies whose one key is an update operator or a profile field:
\* { "$set": { "password": pw } } and { "firstName": ... }
OtherBodies == {"$set:password", "firstName", "active:true", "$set:role"}

\* validateCreateUser / validateUpdateUser (userValidator.js 117-224), as
\* far as the fields of the model go: create needs a password, update
\* refuses a body with the field 'password' (body('password').not()
\* .exists() looks at req.body.password, not below another key); updateMe
\* 447-451 answers 400 for a body with a password before it awaits
validBody(handler, inp) ==
    IF handler = "createUser" THEN inp.pw # 0 /\ inp.body # "active:false"
                                   /\ inp.body # "password"
    ELSE IF handler = "updateUser" THEN inp.body # "password"
    ELSE IF handler = "updateMe"
    THEN inp.body \notin {"password", "role:admin", "role:moderator",
                          "active:false", "active:true"}
    ELSE TRUE

\* One request to /api/users: protect, the route, restrictTo and the
\* validator run up to the handler's first await on the database.  target
\* is the :id of the path (0: a segment that is no ObjectId), for POST /
\* the identity (email) of the body.
UsersRequest(s, method, path, inp) ==
    /\ CanStart(s)
    /\ LET g == protect(inp.via, inp.tok, now)
           h == usersRoute(method, path)
           u == ExtractToken(inp.via, inp.tok).id
           in == [inp EXCEPT
                     !.target = IF path = "/:id" \/ h = "createUser" THEN @ ELSE 0,
                     !.body = IF h \in {"createUser", "updateUser", "updateMe"}
                              THEN @ ELSE "",
                     !.pw = IF h = "createUser"
                               \/ (h = "updateUser" /\ inp.body = "$set:password")
                            THEN @ ELSE 0]
           end(status, msg) == Reject("protect", h, u, status, msg, in)
       IN IF g.status # 0 THEN end(g.status, g.msg)
          ELSE IF h \in AdminHandlers \cup {"notFound"}
                  /\ ~restrictTo({"admin"}, g.user)
               THEN end(403, "forbidden")
          ELSE IF h = "notFound" THEN end(404, "not found")
          ELSE IF ~validBody(h, in) THEN end(400, "validation")
          ELSE /\ last' = Resp("protect", h, u, 0, "next", in, Undef, FALSE)
               /\ hist' = Started(hist)
               /\ req' = [req EXCEPT ![s] = [Idle EXCEPT !.op = h, !.pc = "run",
                              !.uid = u, !.doc = g.user, !.inp = in]]
    /\ UNCHANGED <<db, now, cfg, fe>>

-----------------------------------------------------------------------------
(* The user controller (authController.js 347-624): each handler has one   *)
(* await that touches the collection                                        *)

\* the answer of a guarded handler's step
Ran(s, u, status, msg) ==
    /\ last' = [Resp(req[s].op, "run", u, status, msg, req[s].inp, Undef,
                     db' # db) EXCEPT !.by = req[s].doc.role]
    /\ req' = [req EXCEPT ![s] = Idle]
    /\ hist' = IF req[s].op = "createUser" /\ status = 201
               THEN [hist EXCEPT !.plain[u] = req[s].inp.pw,
                                 !.dup = @ \/ db[u].exists]
               ELSE hist
    /\ UNCHANGED <<now, cfg, fe>>

\* getMe, getUser 419-440: findById(req.params.id)
GetUser(s) ==
    /\ req[s].op \in {"getMe", "getUser"} /\ req[s].pc = "run"
    /\ LET id == IF req[s].op = "getMe" THEN req[s].uid ELSE req[s].inp.target
       IN /\ db' = db
          /\ IF id \notin Ids THEN Ran(s, id, ValidationErrorStatus, "cast error")
             ELSE IF ~FindById(id).exists THEN Ran(s, id, 404, "no user found")
             ELSE Ran(s, id, 200, "read")

\* getAllUsers 370-414: find(filter) and countDocuments(filter)
GetAllUsers(s) ==
    /\ req[s].op = "getAllUsers" /\ req[s].pc = "run"
    /\ db' = db
    /\ Ran(s, 0, 200, "read")

\* getUserStats 566-612: two aggregations
GetUserStats(s) ==
    /\ req[s].op = "getUserStats" /\ req[s].pc = "run"
    /\ db' = db
    /\ Ran(s, 0, 200, "read")

\* deleteMe 495-504: findByIdAndUpdate(req.user.id, { active: false })
DeleteMe(s) ==
    /\ req[s].op = "deleteMe" /\ req[s].pc = "run"
    /\ LET u == req[s].uid IN
       /\ db' = IF FindById(u).exists THEN [db EXCEPT ![u].active = FALSE] ELSE db
       /\ Ran(s, u, 204, "deactivated")

\* the role of a body, the schema default where it names none
BodyRole(body, default) ==
    IF body = "role:admin" THEN "admin"
    ELSE IF body = "role:moderator" THEN "moderator"
    ELSE default

\* createUser 509-520: User.create(req.body); the unique index on email
\* refuses a second document of the same identity
CreateUser(s) ==
    /\ req[s].op = "createUser" /\ req[s].pc = "run"
    /\ LET id == req[s].inp.target IN
       IF id \notin Ids
       THEN db' = db /\ Ran(s, id, ValidationErrorStatus, "validation")
       ELSE IF ~uniqueIndexAllows(db[id])
       THEN db' = db /\ Ran(s, id, ValidationErrorStatus, "duplicate")
       ELSE /\ db' = [db EXCEPT ![id] =
                         NewUser(BodyRole(req[s].inp.body, "user"), req[s].inp.pw, now)]
            /\ Ran(s, id, 201, "created")

\* updateUser 525-543: findByIdAndUpdate(req.params.id, req.body): the
\* fields of the body are set as they are, no save hook runs; the schema's
\* minlength refuses an empty password
\* The role an update document gives: a role key, or a raw $set of role
UpdateRole(body, default) ==
    IF body = "$set:role" THEN "admin" ELSE BodyRole(body, default)

UpdateUser(s) ==
    /\ req[s].op = "updateUser" /\ req[s].pc = "run"
    /\ LET id == req[s].inp.target
           b == req[s].inp.body
       IN IF id \notin Ids
          THEN db' = db /\ Ran(s, id, ValidationErrorStatus, "cast error")
          ELSE IF ~FindById(id).exists
          THEN db' = db /\ Ran(s, id, 404, "no user found")
          ELSE IF b = "$set:password" /\ req[s].inp.pw = 0
          THEN db' = db /\ Ran(s, id, ValidationErrorStatus, "validation")
          ELSE /\ db' = [db EXCEPT ![id] =
                            [@ EXCEPT !.role = UpdateRole(b, @),
                                      !.active = IF b = "active:false" THEN FALSE
                                                 ELSE IF b = "active:true" THEN TRUE
                                                 ELSE @,
                                      !.password = IF b = "$set:password"
                                                   THEN req[s].inp.pw ELSE @]]
               /\ Ran(s, id, 200, "updated")

\* mutant of filterObj: every key of the body is kept
filterObj_All(body) == body

\* filterObj 359-365 with the fields updateMe allows (454-462)
filterObj(body) == IF body = "firstName" THEN body ELSE ""

\* updateMe 465-469: findByIdAndUpdate(req.user.id, filteredBody); none of
\* the fields it lets through is a field of the model's document
UpdateMe(s) ==
    /\ req[s].op = "updateMe" /\ req[s].pc = "run"
    /\ LET u == req[s].uid
           b == filterObj(req[s].inp.body)
       IN /\ db' = [db EXCEPT ![u] =
                       [@ EXCEPT !.role = UpdateRole(b, @),
                                 !.password = IF b = "$set:password"
                                              THEN req[s].inp.pw ELSE @]]
          /\ Ran(s, u, 200, "updated")

\* deleteUser 548-561: findByIdAndDelete(req.params.id)
DeleteUser(s) ==
    /\ req[s].op = "deleteUser" /\ req[s].pc = "run"
    /\ LET id == req[s].inp.target IN
       IF id \notin Ids
       THEN db' = db /\ Ran(s, id, ValidationErrorStatus, "cast error")
       ELSE IF ~FindById(id).exists
       THEN db' = db /\ Ran(s, id, 404, "no user found")
       ELSE /\ db' = [db EXCEPT ![id] = NoDoc]
            /\ Ran(s, id, 204, "deleted")

-----------------------------------------------------------------------------
(* updatePassword (routes/auth.js 24-27, authController.js 289-305) *)

\* validateUpdatePassword: the current and the new password are required
validUpdatePassword(inp) == inp.pw # 0 /\ inp.newpw # 0

\* mutant of changePassword: passwordChangedAt put a second after the save
changePassword_Late(r, pw, t) ==
    [r EXCEPT !.password = BcryptHash(pw),
              !.passwordChangedAt = t + PasswordChangedSkew]

\* What save() writes when the password of an existing document was set:
\* the pre-save hooks hash it (User.js 166-181) and set passwordChangedAt
\* to Date.now() - 1000 (184-189)
changePassword(r, pw, t) ==
    [r EXCEPT !.password = BcryptHash(pw),
              !.passwordChangedAt = t - PasswordChangedSkew]

\* protect and the validator of PATCH /api/auth/update-password
UpdatePasswordRequest(s, inp) ==
    /\ CanStart(s)
    /\ LET g == protect(inp.via, inp.tok, now)
           u == ExtractToken(inp.via, inp.tok).id
       IN IF g.status # 0
          THEN Reject("protect", "updatePassword", u, g.status, g.msg, inp)
          ELSE IF ~validUpdatePassword(inp)
          THEN Reject("protect", "updatePassword", u, 400, "validation", inp)
          ELSE /\ last' = Resp("protect", "updatePassword", u, 0, "next", inp,
                               Undef, FALSE)
               /\ hist' = Started(hist)
               /\ req' = [req EXCEPT ![s] = [Idle EXCEPT !.op = "updatePassword",
                              !.pc = "find", !.uid = u, !.doc = g.user, !.inp = inp]]
    /\ UNCHANGED <<db, now, cfg, fe>>

\* 291-296: findById(req.user.id).select('+password') and correctPassword;
\* with no user the call on null throws
UpdatePasswordFind(s) ==
    /\ req[s].op = "updatePassword" /\ req[s].pc = "find"
    /\ LET u == req[s].uid
           user == FindById(u)
       IN IF ~user.exists
          THEN /\ last' = Resp("updatePassword", "find", u, ServerErrorStatus,
                               "type error", req[s].inp, Undef, FALSE)
               /\ req' = [req EXCEPT ![s] = Idle]
          ELSE IF ~correctPassword(req[s].inp.pw, user.password)
          THEN /\ last' = Resp("updatePassword", "find", u, 401,
                               "current password is wrong", req[s].inp, Undef, FALSE)
               /\ req' = [req EXCEPT ![s] = Idle]
          ELSE /\ last' = Resp("updatePassword", "find", u, 0, "", req[s].inp,
                               Undef, FALSE)
               /\ req' = [req EXCEPT ![s].pc = "save", ![s].doc = user]
    /\ UNCHANGED <<db, now, hist, cfg, fe>>

\* 299-304: the awaited save, then createSendToken
UpdatePasswordSave(s) ==
    /\ req[s].op = "updatePassword" /\ req[s].pc = "save"
    /\ LET u == req[s].uid IN
       IF ~db[u].exists
       THEN /\ last' = Resp("updatePassword", "save", u, ServerErrorStatus,
                            "save failed", req[s].inp, Undef, FALSE)
            /\ req' = [req EXCEPT ![s] = Idle]
            /\ UNCHANGED <<db, hist>>
       ELSE /\ db' = [db EXCEPT ![u] = changePassword(@, req[s].inp.newpw, now)]
            /\ last' = Resp("updatePassword", "save", u, 200, "success",
                            req[s].inp, now \div Second, TRUE)
            /\ req' = createSendToken(s, "updatePassword", req[s].doc, u)
            /\ hist' = [Issue(hist, u, now) EXCEPT !.changedAt[u] = now,
                            !.plain[u] = req[s].inp.newpw]
    /\ UNCHANGED <<now, cfg, fe>>

-----------------------------------------------------------------------------
(* Guard scenario: a user and an admin, requests one after another, the    *)
(* clock in half seconds                                                    *)

MaxGuardReqs == 3
MaxGuardTicks == 2

GuardInit ==
    /\ db = [u \in Ids |-> NewUser(IF u = 1 THEN "user" ELSE "admin", 1, 0)]
    /\ now = T0
    /\ req = [s \in Slots |-> Idle]
    /\ last = NoResp
    /\ fe = Fe0
    /\ hist = Hist0
    /\ cfg = [steps |-> {Second \div 2}, conc |-> 1, reqs |-> MaxGuardReqs,
              ticks |-> MaxGuardTicks, pws |-> {1}]

\* The token of a guarded request and how it is carried: every presentable
\* token in every carrier
GuardInputs ==
    {[In0 EXCEPT !.via = via, !.tok = tok] :
        via \in Carriers, tok \in Presentable("access")}

\* a token signed in this second for user u, in the Authorization header
Fresh(u) == [In0 EXCEPT !.via = "header", !.tok = signToken(u, now)]

GuardNext ==
    \/ \E s \in Slots, u \in Ids, pw \in cfg.pws : LoginFind(s, u, pw)
    \/ \E s \in Slots : LoginCompare(s)
    \/ \E s \in Slots : LoginSave(s)
    \/ \E s \in Slots : SaveApply(s)
    \/ \E s \in Slots, tok \in Presentable("access") :
          UpdatePasswordRequest(s, [In0 EXCEPT !.via = "header", !.tok = tok,
                                               !.pw = 1, !.newpw = 2])
    \/ \E s \in Slots, pw \in {0, 2}, newpw \in {0, 1} :
          UpdatePasswordRequest(s, [Fresh(1) EXCEPT !.pw = pw, !.newpw = newpw])
    \/ \E s \in Slots : UpdatePasswordFind(s)
    \/ \E s \in Slots : UpdatePasswordSave(s)
    \/ \E s \in Slots, inp \in GuardInputs : UsersRequest(s, "GET", "/me", inp)
    \/ \E s \in Slots, u \in Ids :
          UsersRequest(s, "DELETE", "/delete-me", Fresh(u))
    \/ \E s \in Slots : GetUser(s)
    \/ \E s \in Slots : DeleteMe(s)
    \/ Tick

GuardSpec == GuardInit /\ [][GuardNext]_vars

-----------------------------------------------------------------------------
(* The session guard (GuardSpec) *)

\* the latest step was protect, and the request carried an access token
\* that verifies: signed with the access secret, not expired
ProtectStepWithValidToken ==
    /\ last.op = "protect"
    /\ last.inp.via \in {"header", "cookie", "basic+cookie"}
    /\ last.inp.tok.kind = "access"
    /\ (now \div 1000) < last.inp.tok.exp
    /\ last.inp.tok.id \in Ids

\* C4: an access token issued strictly before a password change of its
\* user is answered 401 when it is presented to protect after the change,
\* also when it was issued in the second of the change or the second before.
C4_TokenIssuedBeforeChangeRejected ==
    ( /\ ProtectStepWithValidToken
      /\ \E r \in hist.issued :
            /\ last.inp.tok = signToken(r.id, r.t)
            /\ hist.changedAt[r.id] # Undef
            /\ r.t < hist.changedAt[r.id] )
    => last.status = 401

C8_DeactivatedMessage ==
    ( /\ ProtectStepWithValidToken
      /\ db[last.inp.tok.id].exists
      /\ ~db[last.inp.tok.id].active
      /\ ~( /\ db[last.inp.tok.id].passwordChangedAt # Undef
            /\ last.inp.tok.iat < db[last.inp.tok.id].passwordChangedAt \div 1000 ) )
    => (last.status = 401 /\ last.msg = "deactivated")

-----------------------------------------------------------------------------
(* Admin scenario: a user and an admin with valid tokens, two requests to  *)
(* /api/users in flight                                                     *)

MaxAdminReqs == 3

AdminInit ==
    /\ db = [u \in Ids |-> NewUser(IF u = 1 THEN "user" ELSE "admin", 1, 0)]
    /\ now = T0
    /\ req = [s \in Slots |-> Idle]
    /\ last = NoResp
    /\ fe = Fe0
    /\ hist = Hist0
    /\ cfg = [steps |-> {Second}, conc |-> 2, reqs |-> MaxAdminReqs,
              ticks |-> 0, pws |-> {1}]

\* The requests to /api/users: method, path, :id, body, password of the body
UsersRequests ==
    {<<"GET", "/me", 0, "", 0>>, <<"DELETE", "/delete-me", 0, "", 0>>,
     <<"GET", "/", 0, "", 0>>, <<"GET", "/stats", 0, "", 0>>,
     <<"POST", "/stats", 0, "", 0>>, <<"PATCH", "/me", 0, "role:admin", 0>>,
     <<"DELETE", "/stats", 0, "", 0>>}
      \cup {<<m, "/:id", id, "", 0>> : m \in {"GET", "DELETE"}, id \in Ids \cup {0}}
      \cup {<<"PATCH", "/:id", id, b, 0>> : id \in Ids, b \in Bodies \ {""}}
      \cup {<<"POST", "/", id, b, pw>> :
               id \in Ids, b \in {"", "role:admin"}, pw \in {0, 1}}

AdminNext ==
    \/ \E s \in Slots, u \in Ids, r \in UsersRequests :
          UsersRequest(s, r[1], r[2],
                       [Fresh(u) EXCEPT !.target = r[3], !.body = r[4], !.pw = r[5]])
    \/ \E s \in Slots : GetUser(s)
    \/ \E s \in Slots : GetAllUsers(s)
    \/ \E s \in Slots : GetUserStats(s)
    \/ \E s \in Slots : DeleteMe(s)
    \/ \E s \in Slots : CreateUser(s)
    \/ \E s \in Slots : UpdateUser(s)
    \/ \E s \in Slots : DeleteUser(s)

AdminSpec == AdminInit /\ [][AdminNext]_vars

\* C9: an admin-only handler of the users router runs only for a request
\* that passed protect with a user whose role is 'admin'; a request of a
\* user of any other role for an admin route is answered 403 and leaves the
\* collection and the handlers as they were.
C9_AdminRoutesNeedAdmin ==
    /\ \A s \in Slots : req[s].op \in AdminHandlers =>
           (req[s].doc.exists /\ req[s].doc.role = "admin")
    /\ (last.op \in AdminHandlers /\ last.step = "run") => last.by = "admin"
    /\ ( /\ ProtectStepWithValidToken
         /\ last.step \in AdminHandlers
         /\ db[last.inp.tok.id].exists /\ db[last.inp.tok.id].active
         /\ db[last.inp.tok.id].role # "admin" )
       => (last.status = 403 /\ ~last.changed /\ last.atOnce)

\* a moderator asks for DELETE /api/users/:id of an existing user
C9_Witness ==
    /\ last.op = "protect" /\ last.step = "deleteUser" /\ last.status = 403
    /\ db[last.inp.tok.id].role = "moderator"
    /\ last.inp.target \in Ids /\ db[last.inp.target].exists

-----------------------------------------------------------------------------
(* One-time tokens (User.js 216-241): crypto.randomBytes(32) gives a value *)
(* never drawn before, the document keeps its sha256 and an expiry          *)

Sha256(x) == 1000 + x

createPasswordResetToken(r, plain, t) ==
    [r EXCEPT !.passwordResetToken = Sha256(plain),
              !.passwordResetExpires = t + ResetTokenTTL]

createEmailVerificationToken(r, plain, t) ==
    [r EXCEPT !.emailVerificationToken = Sha256(plain),
              !.emailVerificationExpires = t + VerifyTokenTTL]

\* the record of a one-time token made for user u
Made(h, kind, u, t) ==
    [h EXCEPT !.rnd = @ + 1,
              !.out = @ \cup {[plain |-> h.rnd + 1, kind |-> kind, id |-> u, t |-> t]}]

\* mutant of ResetTokenMatches: a token is still taken at its expiry
ResetTokenMatches_AtExpiry(r, hashed, t) ==
    /\ r.exists /\ r.active
    /\ r.passwordResetToken = hashed
    /\ r.passwordResetExpires # Undef /\ r.passwordResetExpires >= t

\* resetPassword 264-267: the filter of findOne, with that of pre(/^find/)
ResetTokenMatches(r, hashed, t) ==
    /\ r.exists /\ r.active
    /\ r.passwordResetToken = hashed
    /\ r.passwordResetExpires # Undef /\ r.passwordResetExpires > t

\* verifyEmail 316-319
VerifyTokenMatches(r, hashed, t) ==
    /\ r.exists /\ r.active
    /\ r.emailVerificationToken = hashed
    /\ r.emailVerificationExpires # Undef /\ r.emailVerificationExpires > t

\* findOne: the id of a matching document, 0 where there is none
FindOneByResetToken(hashed, t) ==
    IF \E u \in Ids : ResetTokenMatches(db[u], hashed, t)
    THEN CHOOSE u \in Ids : ResetTokenMatches(db[u], hashed, t)
    ELSE 0

FindOneByVerifyToken(hashed, t) ==
    IF \E u \in Ids : VerifyTokenMatches(db[u], hashed, t)
    THEN CHOOSE u \in Ids : VerifyTokenMatches(db[u], hashed, t)
    ELSE 0

-----------------------------------------------------------------------------
(* forgotPassword (authController.js 223-252) *)

\* findOne({ email }), createPasswordResetToken and the save of the two
\* token fields; the mail is not sent (TODO in the code), the plaintext is
\* what it would carry
ForgotPassword(s, u) ==
    /\ CanStart(s)
    /\ LET inp == [In0 EXCEPT !.target = u] IN
       IF ~FindById(u).exists
       THEN /\ Reject("forgot", "find", u, 404, "no user with that email", inp)
            /\ db' = db
       ELSE /\ db' = [db EXCEPT ![u] = createPasswordResetToken(@, hist.rnd + 1, now)]
            /\ last' = Resp("forgot", "find", u, 200, "token sent",
                            [inp EXCEPT !.plain = hist.rnd + 1], Undef, TRUE)
            /\ hist' = Made(Started(hist), "reset", u, now)
            /\ req' = req
    /\ UNCHANGED <<now, cfg, fe>>

-----------------------------------------------------------------------------
(* resetPassword (authController.js 257-284) *)

\* validateResetPassword: the new password is required
validResetPassword(inp) == inp.newpw # 0

\* mutant of consumeResetToken: the token fields left as they were
consumeResetToken_KeepToken(r, pw, t) == changePassword(r, pw, t)

\* 274-278: the new password, the token fields unset, save()
consumeResetToken(r, pw, t) ==
    [changePassword(r, pw, t) EXCEPT !.passwordResetToken = NoHash,
                                     !.passwordResetExpires = Undef]

ResetFind(s, plain, newpw) ==
    /\ CanStart(s)
    /\ LET inp == [In0 EXCEPT !.plain = plain, !.newpw = newpw]
           u == FindOneByResetToken(Sha256(plain), now)
       IN IF ~validResetPassword(inp)
          THEN Reject("reset", "find", 0, 400, "validation", inp)
          ELSE IF u = 0
          THEN Reject("reset", "find", 0, 400, "token is invalid or has expired", inp)
          ELSE /\ last' = Resp("reset", "find", u, 0, "", inp, Undef, FALSE)
               /\ hist' = Started(hist)
               /\ req' = [req EXCEPT ![s] = [Idle EXCEPT !.op = "reset",
                              !.pc = "save", !.uid = u, !.doc = db[u], !.inp = inp]]
    /\ UNCHANGED <<db, now, cfg, fe>>

ResetSave(s) ==
    /\ req[s].op = "reset" /\ req[s].pc = "save"
    /\ LET u == req[s].uid IN
       IF ~db[u].exists
       THEN /\ last' = Resp("reset", "save", u, ServerErrorStatus, "save failed",
                            req[s].inp, Undef, FALSE)
            /\ req' = [req EXCEPT ![s] = Idle]
            /\ UNCHANGED <<db, hist>>
       ELSE /\ db' = [db EXCEPT ![u] = consumeResetToken(@, req[s].inp.newpw, now)]
            /\ last' = Resp("reset", "save", u, 200, "success", req[s].inp,
                            now \div Second, TRUE)
            /\ req' = createSendToken(s, "reset", req[s].doc, u)
            /\ hist' = [Issue(hist, u, now) EXCEPT !.changedAt[u] = now,
                            !.used = @ \cup {req[s].inp.plain},
                            !.reused = @ \cup ({req[s].inp.plain} \cap hist.used),
                            !.plain[u] = req[s].inp.newpw]
    /\ UNCHANGED <<now, cfg, fe>>

-----------------------------------------------------------------------------
(* verifyEmail (authController.js 310-334) *)

\* 325-328
consumeVerificationToken(r) ==
    [r EXCEPT !.emailVerified = TRUE, !.emailVerificationToken = NoHash,
              !.emailVerificationExpires = Undef]

VerifyFind(s, plain) ==
    /\ CanStart(s)
    /\ LET inp == [In0 EXCEPT !.plain = plain]
           u == FindOneByVerifyToken(Sha256(plain), now)
       IN IF u = 0
          THEN Reject("verify", "find", 0, 400, "token is invalid or has expired", inp)
          ELSE /\ last' = Resp("verify", "find", u, 0, "", inp, Undef, FALSE)
               /\ hist' = Started(hist)
               /\ req' = [req EXCEPT ![s] = [Idle EXCEPT !.op = "verify",
                              !.pc = "save", !.uid = u, !.doc = db[u], !.inp = inp]]
    /\ UNCHANGED <<db, now, cfg, fe>>

VerifySave(s) ==
    /\ req[s].op = "verify" /\ req[s].pc = "save"
    /\ LET u == req[s].uid IN
       IF ~db[u].exists
       THEN /\ last' = Resp("verify", "save", u, ServerErrorStatus, "save failed",
                            req[s].inp, Undef, FALSE)
            /\ UNCHANGED <<db, hist>>
       ELSE /\ db' = [db EXCEPT ![u] = consumeVerificationToken(@)]
            /\ last' = Resp("verify", "save", u, 200, "verified", req[s].inp,
                            Undef, TRUE)
            /\ hist' = [hist EXCEPT !.used = @ \cup {req[s].inp.plain}]
    /\ req' = [req EXCEPT ![s] = Idle]
    /\ UNCHANGED <<now, cfg, fe>>

-----------------------------------------------------------------------------
(* signup (authController.js 94-126) *)

\* validateSignup: the password is required
validSignup(inp) == inp.pw # 0

\* 98-105: findOne({ $or: [{ email }, { username }] })
\* signup 95: the fields taken from req.body; any other key is left behind
signupFields(body) == IF body = "firstName" THEN body ELSE ""

SignupRequest(s, e, pw, body) ==
    /\ CanStart(s)
    /\ LET inp == [In0 EXCEPT !.target = e, !.pw = pw, !.body = body]
           u == lowercase(e)
       IN
       IF ~validSignup(inp)
       THEN Reject("signup", "find", u, 400, "validation", inp)
       ELSE IF FindById(u).exists
       THEN Reject("signup", "find", u, 400, "already exists", inp)
       ELSE /\ last' = Resp("signup", "find", u, 0, "", inp, Undef, FALSE)
            /\ hist' = Started(hist)
            /\ req' = [req EXCEPT ![s] = [Idle EXCEPT !.op = "signup",
                           !.pc = "create", !.uid = u, !.inp = inp]]
    /\ UNCHANGED <<db, now, cfg, fe>>

\* signup with the body the validated form sends
SignupFind(s, e, pw) == SignupRequest(s, e, pw, "")

\* 107-114: User.create; the unique index refuses a second document of the
\* same identity, also next to an inactive one
SignupCreate(s) ==
    /\ req[s].op = "signup" /\ req[s].pc = "create"
    /\ LET u == req[s].uid IN
       IF ~uniqueIndexAllows(db[u])
       THEN /\ last' = Resp("signup", "create", u, ValidationErrorStatus,
                            "duplicate", req[s].inp, Undef, FALSE)
            /\ req' = [req EXCEPT ![s] = Idle]
            /\ db' = db
       ELSE /\ db' = [db EXCEPT ![u] =
                         NewUser(BodyRole(signupFields(req[s].inp.body), "user"),
                                 req[s].inp.pw, now)]
            /\ last' = Resp("signup", "create", u, 0, "", req[s].inp, Undef, TRUE)
            /\ req' = [req EXCEPT ![s].pc = "verify", ![s].doc = db'[u]]
    /\ hist' = IF ~uniqueIndexAllows(db[req[s].uid]) THEN hist
               ELSE [hist EXCEPT !.plain[req[s].uid] = req[s].inp.pw,
                                 !.dup = @ \/ db[req[s].uid].exists]
    /\ UNCHANGED <<now, cfg, fe>>

\* 117-125: createEmailVerificationToken, the awaited save, createSendToken
SignupVerify(s) ==
    /\ req[s].op = "signup" /\ req[s].pc = "verify"
    /\ LET u == req[s].uid IN
       IF ~db[u].exists
       THEN /\ last' = Resp("signup", "verify", u, ServerErrorStatus, "save failed",
                            req[s].inp, Undef, FALSE)
            /\ req' = [req EXCEPT ![s] = Idle]
            /\ UNCHANGED <<db, hist>>
       ELSE /\ db' = [db EXCEPT ![u] =
                         createEmailVerificationToken(@, hist.rnd + 1, now)]
            /\ last' = Resp("signup", "verify", u, 201, "success",
                            [req[s].inp EXCEPT !.plain = hist.rnd + 1],
                            now \div Second, TRUE)
            /\ req' = createSendToken(s, "signup", req[s].doc, u)
            /\ hist' = Issue(Made(hist, "verify", u, now), u, now)
    /\ UNCHANGED <<now, cfg, fe>>

-----------------------------------------------------------------------------
(* One-time-token scenario: one account and one to sign up, requests one   *)
(* after another, the clock in steps of five minutes and of twelve hours   *)

MaxOttReqs == 3
MaxOttTicks == 2

OttInit ==
    /\ db = [u \in Ids |-> IF u = 1 THEN NewUser("user", 1, 0) ELSE NoDoc]
    /\ now = T0
    /\ req = [s \in Slots |-> Idle]
    /\ last = NoResp
    /\ fe = Fe0
    /\ hist = Hist0
    /\ cfg = [steps |-> {5 * 60 * 1000, 12 * Hour}, conc |-> 1,
              reqs |-> MaxOttReqs, ticks |-> MaxOttTicks, pws |-> {1}]

\* the plaintexts a client can present: every one made so far, one never
\* made, and the stored hash of one
Plaintexts == 1..(hist.rnd + 1) \cup {Sha256(1)}

OttNext ==
    \/ \E s \in Slots, u \in Ids : ForgotPassword(s, u)
    \/ \E s \in Slots, plain \in Plaintexts, newpw \in {0, 2} :
          ResetFind(s, plain, newpw)
    \/ \E s \in Slots : ResetSave(s)
    \/ \E s \in Slots, plain \in Plaintexts : VerifyFind(s, plain)
    \/ \E s \in Slots : VerifySave(s)
    \/ \E s \in Slots, u \in Ids, pw \in {0, 1} : SignupFind(s, u, pw)
    \/ \E s \in Slots : SignupCreate(s)
    \/ \E s \in Slots : SignupVerify(s)
    \/ \E s \in Slots : SaveApply(s)
    \/ Tick

OttSpec == OttInit /\ [][OttNext]_vars

\* the one-time token of this kind that was made for the plaintext the
\* latest request presented
MadeFor(kind) ==
    {r \in hist.out : r.plain = last.inp.plain /\ r.kind = kind}

\* r is the latest token of its kind made for its user
Latest(r) ==
    \A q \in hist.out : (q.kind = r.kind /\ q.id = r.id) => q.plain <= r.plain

\* C5: with requests one after another, the resetPassword that presents a
\* valid unexpired reset token succeeds, stores the new password and clears
\* the stored hash and expiry, and a later resetPassword with the same
\* plaintext is answered 400; the same for verifyEmail, which sets
\* emailVerified.
C5_OneTimeTokensAreSingleUse ==
    /\ (last.op = "reset" /\ last.step = "find" /\ last.inp.newpw # 0
          /\ last.inp.plain \notin hist.used
          /\ \E r \in MadeFor("reset") :
                Latest(r) /\ now < r.t + 10 * 60 * 1000)
       => last.status = 0
    /\ (last.op = "reset" /\ last.step = "save")
       => ( /\ last.status = 200
            /\ db[last.uid].password = 100 + last.inp.newpw
            /\ db[last.uid].passwordResetToken = NoHash
            /\ db[last.uid].passwordResetExpires = Undef )
    /\ (last.op = "verify" /\ last.step = "find"
          /\ last.inp.plain \notin hist.used
          /\ \E r \in MadeFor("verify") :
                Latest(r) /\ now < r.t + 24 * 60 * 60 * 1000)
       => last.status = 0
    /\ (last.op = "verify" /\ last.step = "save")
       => ( /\ last.status = 200
            /\ db[last.uid].emailVerified
            /\ db[last.uid].emailVerificationToken = NoHash
            /\ db[last.uid].emailVerificationExpires = Undef )
    /\ (last.op \in {"reset", "verify"} /\ last.step = "find"
          /\ last.inp.plain \in hist.used)
       => (last.status = 400 /\ ~last.changed /\ last.atOnce)

\* the replay of a consumed reset token, still inside its ten minutes
C5_Witness ==
    /\ last.op = "reset" /\ last.step = "find" /\ last.status = 400
    /\ last.inp.newpw # 0
    /\ last.inp.plain \in hist.used
    /\ \E r \in MadeFor("reset") : now < r.t + 10 * 60 * 1000

\* C6: resetPassword takes a reset token only at times strictly before the
\* time it was made plus 10 minutes, verifyEmail a verification token only
\* strictly before that time plus 24 hours; at or after the expiry the
\* answer is 400 and nothing is written.
C6_OneTimeTokensExpire ==
    /\ (last.op = "reset" /\ last.step = "find" /\ last.status = 0)
       => \E r \in MadeFor("reset") : now < r.t + 10 * 60 * 1000
    /\ (last.op = "reset" /\ last.step = "find" /\ last.inp.newpw # 0
          /\ \E r \in MadeFor("reset") : now >= r.t + 10 * 60 * 1000)
       => (last.status = 400 /\ ~last.changed /\ last.atOnce)
    /\ (last.op = "verify" /\ last.step = "find" /\ last.status = 0)
       => \E r \in MadeFor("verify") : now < r.t + 24 * 60 * 60 * 1000
    /\ (last.op = "verify" /\ last.step = "find"
          /\ \E r \in MadeFor("verify") : now >= r.t + 24 * 60 * 60 * 1000)
       => (last.status = 400 /\ ~last.changed /\ last.atOnce)

\* a reset token presented at the millisecond of its expiry
C6_Witness ==
    /\ last.op = "reset" /\ last.step = "find" /\ last.status = 400
    /\ last.inp.newpw # 0
    /\ \E r \in MadeFor("reset") :
          /\ Latest(r) /\ now = r.t + 10 * 60 * 1000
          /\ db[r.id].passwordResetToken = 1000 + r.plain

-----------------------------------------------------------------------------
(* Password-change scenario: one account; login, refresh, forgot / reset   *)
(* and update password one after another, the clock in seconds              *)

MaxPwReqs == 3
MaxPwTicks == 1

PwInit ==
    /\ db = [u \in Ids |-> IF u = 1 THEN NewUser("user", 1, 0) ELSE NoDoc]
    /\ now = T0
    /\ req = [s \in Slots |-> Idle]
    /\ last = NoResp
    /\ fe = Fe0
    /\ hist = Hist0
    /\ cfg = [steps |-> {Second}, conc |-> 1, reqs |-> MaxPwReqs,
              ticks |-> MaxPwTicks, pws |-> {1, 2}]

PwNext ==
    \/ \E s \in Slots, pw \in cfg.pws : LoginFind(s, 1, pw)
    \/ \E s \in Slots : LoginCompare(s)
    \/ \E s \in Slots : LoginSave(s)
    \/ \E s \in Slots : SaveApply(s)
    \/ \E s \in Slots, tok \in Presentable("refresh") : RefreshToken(s, tok)
    \/ \E s \in Slots, pw \in {1, 2}, newpw \in {0, 2} :
          UpdatePasswordRequest(s, [Fresh(1) EXCEPT !.pw = pw, !.newpw = newpw])
    \/ \E s \in Slots : UpdatePasswordFind(s)
    \/ \E s \in Slots : UpdatePasswordSave(s)
    \/ \E s \in Slots : ForgotPassword(s, 1)
    \/ \E s \in Slots, plain \in Plaintexts, newpw \in {0, 2} :
          ResetFind(s, plain, newpw)
    \/ \E s \in Slots : ResetSave(s)
    \/ Tick

PwSpec == PwInit /\ [][PwNext]_vars

\* C28: the access token returned by a successful updatePassword or
\* resetPassword passes the session guard right away: the passwordChangedAt
\* written by the change is not later than the token's issued-at time.
C28_ReturnedTokenIsAccepted ==
    (/\ last.op \in {"updatePassword", "reset"}
     /\ last.step = "save"
     /\ last.status = 200)
    => LET u == last.uid
           token == Signed("access", u, last.iss)
       IN /\ db[u].passwordChangedAt # Undef
          /\ Trunc(db[u].passwordChangedAt, 1000) <= token.iat
          /\ protect("header", token, now).status = 0

C28_Witness ==
    /\ last.op = "reset" /\ last.step = "save" /\ last.status = 200
    /\ hist.changedAt[1] = now
    /\ db[1].passwordChangedAt = now - PasswordChangedSkew
    /\ db[1].password # last.pre.password

\* C13: after a successful password change, by updatePassword as by
\* resetPassword, the stored reset-token hash and expiry are cleared, and no
\* reset token made before the change is taken by resetPassword.
C13_ChangeClearsResetToken ==
    /\ (last.op \in {"updatePassword", "reset"} /\ last.step = "save"
          /\ last.status = 200)
       => ( /\ db[last.uid].passwordResetToken = NoHash
            /\ db[last.uid].passwordResetExpires = Undef )
    /\ (last.op = "reset" /\ last.step = "find" /\ last.inp.newpw # 0
          /\ \E r \in MadeFor("reset") :
                /\ hist.changedAt[r.id] # Undef
                /\ r.t <= hist.changedAt[r.id])
       => last.status = 400

\* C14: a refresh token issued to a user before a password change of that
\* user is not exchanged for a new pair after the change: the refresh
\* request is answered 401.
C14_ChangeRevokesRefreshTokens ==
    ( /\ last.op = "refresh" /\ last.step = "find"
      /\ \E r \in hist.issued :
            /\ last.inp.tok = signRefreshToken(r.id, r.t)
            /\ hist.changedAt[r.id] # Undef
            /\ r.t < hist.changedAt[r.id] )
    => (last.status = 401 /\ last.iss = Undef)

-----------------------------------------------------------------------------
(* Rotation scenario: one account with no stored token, logins and         *)
(* refreshes one after another, the clock in seconds                        *)

MaxRotReqs == 7
MaxRotTicks == 1

RotInit ==
    /\ db = [u \in Ids |-> IF u = 1 THEN NewUser("user", 1, 0) ELSE NoDoc]
    /\ now = T0
    /\ req = [s \in Slots |-> Idle]
    /\ last = NoResp
    /\ fe = Fe0
    /\ hist = Hist0
    /\ cfg = [steps |-> {Second}, conc |-> 1, reqs |-> MaxRotReqs,
              ticks |-> MaxRotTicks, pws |-> {1}]

RotNext ==
    \/ \E s \in Slots, pw \in cfg.pws : LoginFind(s, 1, pw)
    \/ \E s \in Slots : LoginCompare(s)
    \/ \E s \in Slots : LoginSave(s)
    \/ \E s \in Slots : SaveApply(s)
    \/ \E s \in Slots, tok \in Presentable("refresh") : RefreshToken(s, tok)
    \/ Tick

RotSpec == RotInit /\ [][RotNext]_vars

\* the refresh tokens handed out to the user of the latest request before
\* that request, as their iat
LogBefore ==
    LET log == hist.log[last.uid] IN
    IF last.status = 200 THEN SubSeq(log, 1, Len(log) - 1) ELSE log

\* a refresh request presented a token that was handed out to its user
RefreshOfIssued ==
    /\ last.op = "refresh" /\ last.step = "find"
    /\ last.uid \in Ids
    /\ last.inp.tok = signRefreshToken(last.uid, last.inp.tok.iat * 1000)
    /\ \E i \in 1..Len(LogBefore) : LogBefore[i] = last.inp.tok.iat

\* C15 as stated: a refresh token is accepted by refresh until 5 newer
\* refresh tokens have been handed out to its user since it was, and from
\* then on it is answered 401.
C15_EvictedAfterFiveNewer ==
    RefreshOfIssued =>
        LET first == CHOOSE i \in 1..Len(LogBefore) :
                        /\ LogBefore[i] = last.inp.tok.iat
                        /\ \A j \in 1..(i - 1) : LogBefore[j] # last.inp.tok.iat
        IN IF Len(LogBefore) - first < 5 THEN last.status = 200
           ELSE last.status = 401

\* C15 amended: with requests one after another, a refresh token is
\* accepted by refresh, also after it was used, until 5 refresh tokens have
\* been handed out to its user after the latest one of its value, and from
\* then on it is answered 401.
C15_EvictedAfterFiveOthers ==
    RefreshOfIssued =>
        LET latest == CHOOSE i \in 1..Len(LogBefore) :
                        /\ LogBefore[i] = last.inp.tok.iat
                        /\ \A j \in (i + 1)..Len(LogBefore) :
                              LogBefore[j] # last.inp.tok.iat
        IN IF Len(LogBefore) - latest < 5
           THEN last.status = 200 /\ tokenExists(db[last.uid], last.inp.tok)
           ELSE last.status = 401 /\ last.iss = Undef

\* the token of the login, presented after five refreshes a second later
C15_Witness ==
    /\ RefreshOfIssued /\ last.status = 401
    /\ Len(LogBefore) = 6
    /\ LogBefore[1] = last.inp.tok.iat
    /\ \A j \in 2..6 : LogBefore[j] # last.inp.tok.iat

-----------------------------------------------------------------------------
(* logout (authController.js 168-190), behind protect (routes/auth.js 24-26) *)

\* mutant of withoutToken: nothing is filtered out
withoutToken_KeepAll(list, rt) == list

\* 173-175: refreshTokens.filter(tokenObj => tokenObj.token !== refreshToken)
withoutToken(list, rt) ==
    LET Other(t) == t # rt IN SelectSeq(list, Other)

\* protect; req.user is the document protect loaded
LogoutRequest(s, inp) ==
    /\ CanStart(s)
    /\ LET g == protect(inp.via, inp.tok, now)
           u == ExtractToken(inp.via, inp.tok).id
       IN IF g.status # 0
          THEN Reject("protect", "logout", u, g.status, g.msg, inp)
          ELSE /\ last' = Resp("protect", "logout", u, 0, "next", inp,
                               Undef, FALSE)
               /\ hist' = Started(hist)
               /\ req' = [req EXCEPT ![s] = [Idle EXCEPT !.op = "logout",
                              !.pc = "save", !.uid = u, !.doc = g.user, !.inp = inp]]
    /\ UNCHANGED <<db, now, cfg, fe>>

\* 169-189: with a refreshToken cookie the filtered list is assigned and
\* the save awaited; a list the filter left as it was is not a modified
\* path and nothing is written.  Then the 200.
LogoutSave(s) ==
    /\ req[s].op = "logout" /\ req[s].pc = "save"
    /\ LET u == req[s].uid
           rt == req[s].inp.rt
           kept == withoutToken(req[s].doc.refreshTokens, rt)
           sv == [kind |-> "set", items |-> kept, v |-> req[s].doc.v]
       IN
       IF rt = NoTok \/ kept = req[s].doc.refreshTokens
       THEN /\ last' = Resp("logout", "save", u, 200, "success", req[s].inp,
                            Undef, FALSE)
            /\ UNCHANGED <<db, hist>>
       ELSE IF ~SaveSucceeds(db[u], sv)
       THEN /\ last' = Resp("logout", "save", u, ServerErrorStatus,
                            "save failed", req[s].inp, Undef, FALSE)
            /\ UNCHANGED <<db, hist>>
       ELSE /\ db' = [db EXCEPT ![u] = ApplySave(@, sv)]
            /\ last' = Resp("logout", "save", u, 200, "success", req[s].inp,
                            Undef, TRUE)
            /\ hist' = [hist EXCEPT !.revoked = @ \cup {rt}]
    /\ req' = [req EXCEPT ![s] = Idle]
    /\ UNCHANGED <<now, cfg, fe>>

-----------------------------------------------------------------------------
(* Logout scenario: one account, logins, refreshes and logouts one after    *)
(* another, the clock in seconds                                            *)

MaxOutReqs == 5
MaxOutTicks == 1

OutInit ==
    /\ db = [u \in Ids |-> IF u = 1 THEN NewUser("user", 1, 0) ELSE NoDoc]
    /\ now = T0
    /\ req = [s \in Slots |-> Idle]
    /\ last = NoResp
    /\ fe = Fe0
    /\ hist = Hist0
    /\ cfg = [steps |-> {Second}, conc |-> 1, reqs |-> MaxOutReqs,
              ticks |-> MaxOutTicks, pws |-> {1}]

OutNext ==
    \/ \E s \in Slots, pw \in cfg.pws : LoginFind(s, 1, pw)
    \/ \E s \in Slots : LoginCompare(s)
    \/ \E s \in Slots : LoginSave(s)
    \/ \E s \in Slots : SaveApply(s)
    \/ \E s \in Slots, tok \in Presentable("refresh") : RefreshToken(s, tok)
    \/ \E s \in Slots, rt \in Presentable("refresh"), via \in {"header", "cookie"} :
          LogoutRequest(s, [Fresh(1) EXCEPT !.rt = rt, !.via = via])
    \/ \E s \in Slots : LogoutSave(s)
    \/ Tick

OutSpec == OutInit /\ [][OutNext]_vars

-----------------------------------------------------------------------------
(* Credential scenario: an admin and an account that signs up or is        *)
(* created, every handler that touches a user document, requests one after *)
(* another, the clock in seconds                                           *)

MaxCredReqs == 3
MaxCredTicks == 1

CredInit ==
    /\ db = [u \in Ids |-> IF u = 1 THEN NewUser("admin", 1, 0) ELSE NoDoc]
    /\ now = T0
    /\ req = [s \in Slots |-> Idle]
    /\ last = NoResp
    /\ fe = Fe0
    /\ hist = Hist0
    /\ cfg = [steps |-> {Second}, conc |-> 1, reqs |-> MaxCredReqs,
              ticks |-> MaxCredTicks, pws |-> {1, 2}]

\* The requests to /api/users of the scenario: who sends it, method, path,
\* :id, body, password of the body
CredRequests ==
    {<<1, "POST", "/", 2, "", 2>>,
     <<1, "PATCH", "/:id", 2, "role:moderator", 0>>,
     <<1, "PATCH", "/:id", 2, "password", 2>>,
     <<1, "PATCH", "/:id", 2, "$set:password", 2>>,
     <<2, "PATCH", "/update-me", 0, "firstName", 0>>,
     <<2, "PATCH", "/update-me", 0, "password", 2>>,
     <<2, "PATCH", "/update-me", 0, "$set:password", 2>>,
     <<2, "DELETE", "/delete-me", 0, "", 0>>}

CredNext ==
    \/ \E s \in Slots, pw \in cfg.pws : SignupFind(s, 2, pw)
    \/ \E s \in Slots : SignupCreate(s)
    \/ \E s \in Slots : SignupVerify(s)
    \/ \E s \in Slots, r \in CredRequests :
          UsersRequest(s, r[2], r[3],
                       [Fresh(r[1]) EXCEPT !.target = r[4], !.body = r[5],
                                           !.pw = r[6]])
    \/ \E s \in Slots : CreateUser(s)
    \/ \E s \in Slots : UpdateUser(s)
    \/ \E s \in Slots : UpdateMe(s)
    \/ \E s \in Slots : DeleteMe(s)
    \/ \E s \in Slots, pw \in cfg.pws : LoginFind(s, 2, pw)
    \/ \E s \in Slots : LoginCompare(s)
    \/ \E s \in Slots : LoginSave(s)
    \/ \E s \in Slots : SaveApply(s)
    \/ \E s \in Slots : RefreshToken(s, signRefreshToken(2, now))
    \/ \E s \in Slots : LogoutRequest(s, [Fresh(2) EXCEPT !.rt = signRefreshToken(2, now)])
    \/ \E s \in Slots : LogoutSave(s)
    \/ \E s \in Slots : ForgotPassword(s, 2)
    \/ \E s \in Slots, newpw \in cfg.pws : ResetFind(s, hist.rnd, newpw)
    \/ \E s \in Slots : ResetSave(s)
    \/ \E s \in Slots : VerifyFind(s, hist.rnd)
    \/ \E s \in Slots : VerifySave(s)
    \/ \E s \in Slots, pw \in cfg.pws, newpw \in cfg.pws :
          UpdatePasswordRequest(s, [Fresh(2) EXCEPT !.pw = pw, !.newpw = newpw])
    \/ \E s \in Slots : UpdatePasswordFind(s)
    \/ \E s \in Slots : UpdatePasswordSave(s)
    \/ Tick

CredSpec == CredInit /\ [][CredNext]_vars

\* C18: the stored password of every user is the bcrypt hash of the
\* plaintext set last for that user by signup, createUser, resetPassword or
\* updatePassword, never that plaintext; a login with that plaintext that
\* gets to the comparison is not answered 401.
C18_StoredPasswordIsHashOfLastSet ==
    /\ \A u \in Ids : db[u].exists =>
          ( /\ db[u].password = BcryptHash(hist.plain[u])
            /\ db[u].password # hist.plain[u] )
    /\ ( last.op = "login" /\ last.step = "compare"
         /\ last.inp.pw = hist.plain[last.uid] )
       => last.status # 401

\* C19: a step that changes the stored password of an existing user is the
\* save of resetPassword or of updatePassword, and it sets passwordChangedAt
\* to Date.now() - 1000 in the same write.
C19_PasswordChangesOnlyByPasswordPaths ==
    ( last.uid \in Ids /\ last.pre.exists /\ db[last.uid].exists
      /\ db[last.uid].password # last.pre.password )
    => ( /\ last.op \in {"reset", "updatePassword"} /\ last.step = "save"
         /\ db[last.uid].passwordChangedAt = now - PasswordChangedSkew )

-----------------------------------------------------------------------------
(* Signup scenario: one stored account that may deactivate itself, one     *)
(* identity free, two signups in flight                                    *)

MaxSignReqs == 3

SignInit ==
    /\ db = [u \in Ids |-> IF u = 1 THEN NewUser("user", 1, 0) ELSE NoDoc]
    /\ now = T0
    /\ req = [s \in Slots |-> Idle]
    /\ last = NoResp
    /\ fe = Fe0
    /\ hist = Hist0
    /\ cfg = [steps |-> {Second}, conc |-> 2, reqs |-> MaxSignReqs,
              ticks |-> 0, pws |-> {0, 1}]

SignNext ==
    \/ \E s \in Slots, e \in Spellings, pw \in cfg.pws : SignupFind(s, e, pw)
    \/ \E s \in Slots : SignupCreate(s)
    \/ \E s \in Slots : SignupVerify(s)
    \/ \E s \in Slots : SaveApply(s)
    \/ \E s \in Slots, u \in Ids : UsersRequest(s, "DELETE", "/delete-me", Fresh(u))
    \/ \E s \in Slots : DeleteMe(s)

SignSpec == SignInit /\ [][SignNext]_vars

\* C20: a signup whose email, whatever its capitals, or username is that of
\* a stored user record, active or not, is answered 400 where it looks the
\* record up or where it inserts, and writes nothing; no document is ever
\* inserted next to a stored one of the same email or username, also with
\* two signups of one identity in flight.
C20_SignupKeepsIdentitiesUnique ==
    /\ ~hist.dup
    /\ ( last.op = "signup" /\ last.step = "find"
         /\ last.pre.exists /\ last.pre.active )
       => ( last.status = 400 /\ ~last.changed /\ db[last.uid] = last.pre )
    /\ ( last.op = "signup" /\ last.step = "create" /\ last.pre.exists )
       => ( last.status = 400 /\ ~last.changed /\ db[last.uid] = last.pre )
    /\ ( last.op = "signup" /\ last.step = "create" /\ last.status = 0 )
       => ( ~last.pre.exists /\ last.uid = lowercase(last.inp.target) )

\* two signups of one email, one of them spelled with capitals, both past
\* the lookup: the second insert is refused
C20_Witness ==
    /\ last.op = "signup" /\ last.step = "create" /\ last.status = 400
    /\ last.inp.target # last.uid
    /\ \E s \in Slots : req[s].op = "signup" /\ req[s].uid = last.uid
                          /\ req[s].pc = "verify"

\* C21: deleteMe leaves the record stored and sets active to false, nothing
\* else; a request that finds the record of its user stored with active
\* false is answered 401: a login with the right password, a refresh with a
\* token of the stored list, a guarded request with an access token that
\* verifies.
C21_DeactivatedUserIsRefused ==
    /\ ( last.op = "deleteMe" /\ last.step = "run" /\ last.pre.exists )
       => db[last.uid] = [last.pre EXCEPT !.active = FALSE]
    /\ ( last.uid \in Ids /\ last.pre.exists /\ ~last.pre.active )
       => ( /\ ( last.op = "login" /\ last.step = "find"
                 /\ correctPassword(last.inp.pw, last.pre.password) )
               => last.status = 401
            /\ ( last.op = "refresh" /\ last.step = "find"
                 /\ tokenExists(last.pre, last.inp.tok) )
               => last.status = 401
            /\ ( last.op = "protect"
                 /\ jwtVerify(ExtractToken(last.inp.via, last.inp.tok), "access", now) )
               => last.status = 401 )

\* a refresh with the stored token of a user who has deactivated the account
C21_Witness ==
    /\ last.op = "refresh" /\ last.step = "find" /\ last.status = 401
    /\ last.uid \in Ids /\ last.pre.exists /\ ~last.pre.active
    /\ tokenExists(last.pre, last.inp.tok)

\* C22: updatePassword with a current password that is not the one whose
\* hash is stored is answered 401, leaves the document of the user
\* (password, passwordChangedAt, refreshTokens) as it was, hands out no
\* token and starts no save; an updatePassword that writes was sent the
\* current password.
C22_WrongCurrentPasswordChangesNothing ==
    /\ ( last.op = "updatePassword" /\ last.step = "find" /\ last.pre.exists
         /\ last.pre.password # BcryptHash(last.inp.pw) )
       => ( /\ last.status = 401
            /\ db[last.uid] = last.pre
            /\ last.iss = Undef
            /\ \A s \in Slots : req[s].op = "idle" )
    /\ ( last.op = "updatePassword" /\ last.step = "save" /\ last.changed )
       => ( /\ last.pre.password = BcryptHash(last.inp.pw)
            /\ db[last.uid].password = BcryptHash(last.inp.newpw) )

\* a wrong current password for a user with a stored refresh token
C22_Witness ==
    /\ last.op = "updatePassword" /\ last.step = "find" /\ last.status = 401
    /\ last.pre.password # BcryptHash(last.inp.pw)
    /\ Len(db[last.uid].refreshTokens) >= 1

-----------------------------------------------------------------------------
(* optionalAuth (middleware/auth.js 111-137) *)

\* 112-134: the token is taken as protect takes it; jwt.verify and
\* findById run inside try, and what they throw is caught.  The result is
\* the user attached to the request, NoDoc where none is.
optionalAuth(via, tok, t) ==
    LET token == ExtractToken(via, tok)
        currentUser == FindById(token.id)
    IN IF token = NoTok THEN NoDoc
       ELSE IF ~jwtVerify(token, "access", t) THEN NoDoc
       ELSE IF currentUser.exists /\ currentUser.active
               /\ ~changedPasswordAfter(currentUser, token.iat)
            THEN currentUser
       ELSE NoDoc

\* A request through optionalAuth: 136 calls next() with no argument.  It
\* writes nothing and is answered at once, like a rejected request.
OptionalAuthRequest(s, inp) ==
    /\ CanStart(s)
    /\ ~last.atOnce
    /\ LET user == optionalAuth(inp.via, inp.tok, now)
           u == ExtractToken(inp.via, inp.tok).id
       IN last' = [Resp("optionalAuth", "next", u, 0,
                        IF user.exists THEN "user" ELSE "anonymous",
                        inp, Undef, FALSE) EXCEPT !.atOnce = TRUE]
    /\ UNCHANGED <<db, now, req, hist, cfg, fe>>

-----------------------------------------------------------------------------
(* Optional-guard scenario: one account and one unknown id, requests one   *)
(* after another, the clock in half seconds                                *)

MaxOptReqs == 3
MaxOptTicks == 2

OptInit ==
    /\ db = [u \in Ids |-> IF u = 1 THEN NewUser("user", 1, 0) ELSE NoDoc]
    /\ now = T0
    /\ req = [s \in Slots |-> Idle]
    /\ last = NoResp
    /\ fe = Fe0
    /\ hist = Hist0
    /\ cfg = [steps |-> {Second \div 2}, conc |-> 1, reqs |-> MaxOptReqs,
              ticks |-> MaxOptTicks, pws |-> {1}]

OptNext ==
    \/ \E s \in Slots, pw \in cfg.pws : LoginFind(s, 1, pw)
    \/ \E s \in Slots : LoginCompare(s)
    \/ \E s \in Slots : LoginSave(s)
    \/ \E s \in Slots : SaveApply(s)
    \/ \E s \in Slots :
          UpdatePasswordRequest(s, [Fresh(1) EXCEPT !.pw = 1, !.newpw = 1])
    \/ \E s \in Slots : UpdatePasswordFind(s)
    \/ \E s \in Slots : UpdatePasswordSave(s)
    \/ \E s \in Slots : UsersRequest(s, "DELETE", "/delete-me", Fresh(1))
    \/ \E s \in Slots : DeleteMe(s)
    \/ \E s \in Slots, inp \in GuardInputs : OptionalAuthRequest(s, inp)
    \/ Tick

OptSpec == OptInit /\ [][OptNext]_vars

\* C23: optionalAuth hands every request on without an error and writes
\* nothing; it attaches a user only if the token verifies, its user is
\* stored and active, and the password of that user was not changed after
\* the token was issued: not at or after the end of the second the token
\* was signed in.
C23_OptionalAuthAttachesOnlyValidSessions ==
    last.op = "optionalAuth" =>
        LET token == ExtractToken(last.inp.via, last.inp.tok)
            u == token.id
        IN /\ last.status = 0 /\ ~last.changed
           /\ last.msg = "user" =>
                ( /\ token.kind = "access" /\ (now \div 1000) < token.exp
                  /\ u \in Ids /\ db[u].exists /\ db[u].active
                  /\ ~( /\ hist.changedAt[u] # Undef
                        /\ (token.iat + 1) * Second <= hist.changedAt[u] ) )

-----------------------------------------------------------------------------
(* Login race scenario: one account after three failed logins, two logins  *)
(* in flight, the clock in hours                                           *)

MaxRaceReqs == 4
MaxRaceTicks == 1

RaceInit ==
    /\ db = [u \in Ids |-> IF u = 1
                           THEN [NewUser("user", 1, 0) EXCEPT !.loginAttempts = 3]
                           ELSE NoDoc]
    /\ now = T0
    /\ req = [s \in Slots |-> Idle]
    /\ last = NoResp
    /\ fe = Fe0
    /\ hist = [Hist0 EXCEPT !.fails[1] = 3, !.run[1] = 3]
    /\ cfg = [steps |-> {Hour}, conc |-> 2, reqs |-> MaxRaceReqs,
              ticks |-> MaxRaceTicks, pws |-> {1, 2}]

RaceNext ==
    \/ \E s \in Slots, pw \in cfg.pws : LoginFind(s, 1, pw)
    \/ \E s \in Slots : LoginCompare(s)
    \/ \E s \in Slots : LoginSave(s)
    \/ \E s \in Slots : SaveApply(s)
    \/ Tick

RaceSpec == RaceInit /\ [][RaceNext]_vars

\* C24: with two logins of one account in flight, no state has a stored
\* loginAttempts of 5 or more with no lockUntil, and no more than 5 wrong
\* passwords are compared between two successes or locks: the fifth sets
\* the lock.
C24_NoLockBypassUnderConcurrency ==
    \A u \in Ids :
        /\ (db[u].exists /\ db[u].loginAttempts >= MAX_LOGIN_ATTEMPTS)
              => db[u].lockUntil # Undef
        /\ hist.run[u] < MAX_LOGIN_ATTEMPTS

-----------------------------------------------------------------------------
(* Reset race scenario: one account, forgot-password and two               *)
(* reset-password requests in flight                                       *)

MaxResetReqs == 4

ResetRaceInit ==
    /\ db = [u \in Ids |-> IF u = 1 THEN NewUser("user", 1, 0) ELSE NoDoc]
    /\ now = T0
    /\ req = [s \in Slots |-> Idle]
    /\ last = NoResp
    /\ fe = Fe0
    /\ hist = Hist0
    /\ cfg = [steps |-> {Second}, conc |-> 2, reqs |-> MaxResetReqs,
              ticks |-> 0, pws |-> {1, 2}]

ResetRaceNext ==
    \/ \E s \in Slots : ForgotPassword(s, 1)
    \/ \E s \in Slots, plain \in Plaintexts, newpw \in cfg.pws :
          ResetFind(s, plain, newpw)
    \/ \E s \in Slots : ResetSave(s)
    \/ \E s \in Slots : SaveApply(s)

ResetRaceSpec == ResetRaceInit /\ [][ResetRaceNext]_vars

\* C25: with two resetPassword requests in flight, no reset token is
\* accepted twice: of the requests that present one plaintext at most one
\* sets a password and is answered 200 with a token pair.
C25_ResetTokenUsedOnceUnderConcurrency == hist.reused = {}

-----------------------------------------------------------------------------
(* The frontend: the axios instance of services/api.js and the auth store   *)
(* of hooks/useAuthStore.js.  fe.calls holds the calls that wait for an     *)
(* answer: the request the user started at the bottom, above it the         *)
(* refresh calls made on its behalf by the response interceptor, each       *)
(* awaited by the call below it.  The server's answer is any status.        *)

MaxFeReqs == 3
MaxFeCalls == 4

\* What the server may answer to a call.
Statuses == {200, 401, 500}

\* The calls the user starts: authAPI.login and any other call of the API.
FeKinds == {"login", "request"}

\* A request config: error.config and its _retry flag.
Config(kind) == [kind |-> kind, retry |-> FALSE]

Top == fe.calls[Len(fe.calls)]

Below == SubSeq(fe.calls, 1, Len(fe.calls) - 1)

\* A call of the API by the application; one at a time.
FeSend(kind) ==
    /\ fe.calls = <<>>
    /\ fe.nreq < MaxFeReqs
    /\ fe' = [fe EXCEPT !.calls = <<Config(kind)>>, !.nreq = @ + 1,
                        !.refreshes = 0, !.saw401 = FALSE,
                        !.retried = FALSE, !.outcome = "none"]
    /\ UNCHANGED <<db, now, req, last, hist, cfg>>

\* api.js 29: a 2xx answer passes the interceptor.  The answer to login is
\* stored (useAuthStore 21-32); the answer to a refresh call is stored
\* (useAuthStore 100-111) and the interceptor that awaited it sends its
\* original request again (api.js 41-42).
FeFulfilled ==
    /\ fe.calls # <<>>
    /\ fe' =
         IF Top.kind = "refresh"
         THEN [fe EXCEPT !.calls = Below,
                         !.minted = @ + 1,
                         !.store = [@ EXCEPT !.token = fe.minted + 1,
                                             !.refreshToken = fe.minted + 1],
                         !.retried = @ \/ Len(fe.calls) = 2]
         ELSE IF Top.kind = "login"
         THEN [fe EXCEPT !.calls = Below,
                         !.minted = @ + 1,
                         !.store = [user |-> 1, token |-> fe.minted + 1,
                                    refreshToken |-> fe.minted + 1,
                                    isAuthenticated |-> TRUE],
                         !.outcome = "resolved"]
         ELSE [fe EXCEPT !.calls = Below, !.outcome = "resolved"]
    /\ UNCHANGED <<db, now, req, last, hist, cfg>>

\* api.js 30-52: an error answer.  A 401 to a config without _retry sets the
\* flag and calls refreshAuthToken, which throws without a stored refresh
\* token (useAuthStore 92-95) and posts it to /auth/refresh-token through the
\* same axios instance otherwise.  Any other error is rejected: a rejected
\* refresh call logs out (useAuthStore 112-115), and so does the interceptor
\* that awaited it (api.js 43-47), down to the request of the user.
FeRejected(status) ==
    /\ fe.calls # <<>>
    /\ status # 200
    /\ IF status = 401 /\ ~Top.retry
       THEN IF fe.store.refreshToken = 0
            THEN fe' = [fe EXCEPT !.calls = <<>>, !.store = NoStore,
                                  !.saw401 = @ \/ Len(fe.calls) = 1,
                                  !.outcome = "cleared"]
            ELSE /\ Len(fe.calls) < MaxFeCalls
                 /\ fe' = [fe EXCEPT
                             !.calls = Append([@ EXCEPT ![Len(@)].retry = TRUE],
                                              Config("refresh")),
                             !.saw401 = @ \/ Len(fe.calls) = 1,
                             !.refreshes = @ + 1]
       ELSE IF Len(fe.calls) = 1
            THEN fe' = [fe EXCEPT !.calls = <<>>, !.outcome = "rejected"]
            ELSE fe' = [fe EXCEPT !.calls = <<>>, !.store = NoStore,
                                  !.outcome = "cleared"]
    /\ UNCHANGED <<db, now, req, last, hist, cfg>>

FeInit ==
    /\ db = [u \in Ids |-> NoDoc]
    /\ now = T0
    /\ req = [s \in Slots |-> Idle]
    /\ last = NoResp
    /\ fe = Fe0
    /\ hist = Hist0
    /\ cfg = [steps |-> {Hour}, conc |-> 1, reqs |-> 0, ticks |-> 0,
              pws |-> {1}]

FeNext ==
    \/ \E kind \in FeKinds : FeSend(kind)
    \/ FeFulfilled
    \/ \E status \in Statuses : FeRejected(status)

FeSpec == FeInit /\ [][FeNext]_vars

\* C27: the automatic token refresh terminates.  A request answered 401
\* causes at most one refresh call; a 401 answer to the refresh call starts
\* no further refresh (no refresh call waits for another refresh call); and
\* a request that was answered 401 ends either sent again after a refresh or
\* with the auth store cleared.
C27_RefreshTerminates ==
    /\ fe.refreshes <= 1
    /\ \A i \in 2..Len(fe.calls) :
          fe.calls[i].kind = "refresh" => fe.calls[i - 1].kind # "refresh"
    /\ (fe.calls = <<>> /\ fe.saw401) => (fe.retried \/ fe.store = NoStore)

-----------------------------------------------------------------------------
(* Deactivated accounts: every handler that writes a user document, run      *)
(* against an account before and after its deactivation.                     *)

MaxTermReqs == 4

\* User 1 is an admin.  User 2 signed up a second ago: the document holds the
\* hash of the verification token and the refresh token of the signup.
TermInit ==
    /\ db = [u \in Ids |->
               IF u = 1 THEN NewUser("admin", 1, 0)
               ELSE [createEmailVerificationToken(NewUser("user", 1, Second), 1, Second)
                        EXCEPT !.refreshTokens = <<signRefreshToken(2, Second)>>,
                               !.v = 1]]
    /\ now = T0
    /\ req = [s \in Slots |-> Idle]
    /\ last = NoResp
    /\ fe = Fe0
    /\ hist = Issue(Made(Hist0, "verify", 2, Second), 2, Second)
    /\ cfg = [steps |-> {Second}, conc |-> 1, reqs |-> MaxTermReqs,
              ticks |-> 0, pws |-> {1, 2}]

\* The requests to /api/users of the scenario: who sends it, method, path,
\* :id, body, password of the body
TermRequests ==
    {<<2, "DELETE", "/delete-me", 0, "", 0>>,
     <<1, "PATCH", "/:id", 2, "active:false", 0>>,
     <<1, "PATCH", "/:id", 2, "active:true", 0>>,
     <<1, "PATCH", "/:id", 2, "role:moderator", 0>>,
     <<1, "DELETE", "/:id", 2, "", 0>>,
     <<1, "POST", "/", 2, "", 2>>,
     <<2, "PATCH", "/update-me", 0, "firstName", 0>>}

TermNext ==
    \/ \E s \in Slots, r \in TermRequests :
          UsersRequest(s, r[2], r[3],
                       [Fresh(r[1]) EXCEPT !.target = r[4], !.body = r[5],
                                           !.pw = r[6]])
    \/ \E s \in Slots : DeleteMe(s)
    \/ \E s \in Slots : UpdateUser(s)
    \/ \E s \in Slots : DeleteUser(s)
    \/ \E s \in Slots : CreateUser(s)
    \/ \E s \in Slots : UpdateMe(s)
    \/ \E s \in Slots, pw \in cfg.pws : SignupFind(s, 2, pw)
    \/ \E s \in Slots : SignupCreate(s)
    \/ \E s \in Slots : SignupVerify(s)
    \/ \E s \in Slots, pw \in cfg.pws : LoginFind(s, 2, pw)
    \/ \E s \in Slots : LoginCompare(s)
    \/ \E s \in Slots : LoginSave(s)
    \/ \E s \in Slots : SaveApply(s)
    \/ \E s \in Slots : RefreshToken(s, signRefreshToken(2, Second))
    \/ \E s \in Slots : ForgotPassword(s, 2)
    \/ \E s \in Slots : ResetFind(s, hist.rnd, 2)
    \/ \E s \in Slots : ResetSave(s)
    \/ \E s \in Slots : VerifyFind(s, 1)
    \/ \E s \in Slots : VerifySave(s)

TermSpec == TermInit /\ [][TermNext]_vars

\* C29: deactivation is terminal.  No step of any handler takes a user
\* document whose active flag is false back to active or removes it.
C29_DeactivationIsTerminal ==
    [][\A u \in Ids :
          (db[u].exists /\ ~db[u].active) => (db'[u].exists /\ ~db'[u].active)]_vars

\* The admin's PATCH /:id with active: true for a deactivated user was
\* answered 404 and the user is still stored, inactive.
C29_Witness ==
    /\ last.op = "updateUser" /\ last.step = "run"
    /\ last.inp.body = "active:true" /\ last.inp.target = 2
    /\ last.status = 404
    /\ db[2].exists /\ ~db[2].active

-----------------------------------------------------------------------------
(* What a client that is not an admin can do: the routes of /api/auth, and   *)
(* those of /api/users with the token of a user of role 'user'.             *)

MaxUserReqs == 4

\* User 1 is an admin who sends nothing; identity 2 is free to sign up.
UserInit ==
    /\ db = [u \in Ids |-> IF u = 1 THEN NewUser("admin", 1, 0) ELSE NoDoc]
    /\ now = T0
    /\ req = [s \in Slots |-> Idle]
    /\ last = NoResp
    /\ fe = Fe0
    /\ hist = Hist0
    /\ cfg = [steps |-> {Second}, conc |-> 1, reqs |-> MaxUserReqs,
              ticks |-> 0, pws |-> {1, 2}]

\* The requests user 2 sends to /api/users: method, path, :id, body, password
UserRequests ==
    {<<"PATCH", "/update-me", 0, "firstName", 0>>,
     <<"PATCH", "/update-me", 0, "role:admin", 0>>,
     <<"PATCH", "/update-me", 0, "$set:role", 0>>,
     <<"DELETE", "/delete-me", 0, "", 0>>,
     <<"PATCH", "/:id", 1, "role:moderator", 0>>,
     <<"PATCH", "/:id", 2, "role:admin", 0>>,
     <<"POST", "/", 2, "role:admin", 2>>}

UserNext ==
    \/ \E s \in Slots, pw \in cfg.pws, body \in {"", "role:admin"} :
          SignupRequest(s, 2, pw, body)
    \/ \E s \in Slots : SignupCreate(s)
    \/ \E s \in Slots : SignupVerify(s)
    \/ \E s \in Slots, pw \in cfg.pws : LoginFind(s, 2, pw)
    \/ \E s \in Slots : LoginCompare(s)
    \/ \E s \in Slots : LoginSave(s)
    \/ \E s \in Slots : SaveApply(s)
    \/ \E s \in Slots : RefreshToken(s, signRefreshToken(2, now))
    \/ \E s \in Slots : LogoutRequest(s, [Fresh(2) EXCEPT !.rt = signRefreshToken(2, now)])
    \/ \E s \in Slots : LogoutSave(s)
    \/ \E s \in Slots : ForgotPassword(s, 2)
    \/ \E s \in Slots, newpw \in cfg.pws : ResetFind(s, hist.rnd, newpw)
    \/ \E s \in Slots : ResetSave(s)
    \/ \E s \in Slots : VerifyFind(s, hist.rnd)
    \/ \E s \in Slots : VerifySave(s)
    \/ \E s \in Slots, pw \in cfg.pws :
          UpdatePasswordRequest(s, [Fresh(2) EXCEPT !.pw = pw, !.newpw = 2])
    \/ \E s \in Slots : UpdatePasswordFind(s)
    \/ \E s \in Slots : UpdatePasswordSave(s)
    \/ \E s \in Slots, r \in UserRequests :
          UsersRequest(s, r[1], r[2],
                       [Fresh(2) EXCEPT !.target = r[3], !.body = r[4],
                                        !.pw = r[5]])
    \/ \E s \in Slots : UpdateMe(s)
    \/ \E s \in Slots : DeleteMe(s)

UserSpec == UserInit /\ [][UserNext]_vars

\* C30: nothing a non-admin can do changes a role.  No step changes the role
\* of a stored user; a user that signup stores has role 'user' whatever the
\* body held; and the step of updateMe leaves role, active and password of
\* every user as they were (the email is the identity of the document).
C30_NonAdminNeverChangesRole ==
    [][\A u \in Ids :
          /\ (db[u].exists /\ db'[u].exists) => db'[u].role = db[u].role
          /\ (~db[u].exists /\ db'[u].exists) => db'[u].role = "user"
          /\ (last'.op = "updateMe" /\ last'.step = "run")
                => /\ db'[u].exists = db[u].exists
                   /\ db'[u].active = db[u].active
                   /\ db'[u].password = db[u].password]_vars

\* updateMe of user 2 with a raw $set of role was answered 200 and user 2,
\* stored by signup, still has role 'user'.
C30_Witness ==
    /\ last.op = "updateMe" /\ last.step = "run" /\ last.status = 200
    /\ last.inp.body = "$set:role" /\ last.uid = 2
    /\ db[2].exists /\ db[2].role = "user"
    /\ db[1].role = "admin"

=============================================================================
